---- MODULE Spec2Model ----
(***************************************************************************)
(* Snake Arena: the Room state machine (server/Room.js), the part of the   *)
(* Room directory that drives it (server/RoomManager.js), the Player       *)
(* session flags (server/Player.js) and the liveness view of the           *)
(* GameEngine (snake set, alive flags, tick counter).                      *)
(*                                                                         *)
(* One room is modelled from the moment RoomManager.createRoom returns.    *)
(* Node.js runs every handler and every timer callback to completion, so   *)
(* each handler is one atomic action.  A timer is a boolean "pending"      *)
(* flag: setInterval/setTimeout set it, clearInterval/clearTimeout reset   *)
(* it, and the callback can run only while it is set.  Timer callbacks are *)
(* guarded by their flag alone, never by the room being in the directory.  *)
(*                                                                         *)
(* In the Room state machine GameEngine.update() is seen through its       *)
(* effect on liveness and on the standings: the tick counter advances by   *)
(* one, any subset of the living snakes can die (wall and self collision   *)
(* are decided per snake, independently), each death can have a surviving  *)
(* killer, which _applyDeath credits, and _maintainFood stocks the food     *)
(* list.                                                                   *)
(*                                                                         *)
(* The GameEngine class is also modelled in full (server/db.js), as the    *)
(* variable world: update() with movement, collisions, food, power-ups and *)
(* their effects, queueInput, spawnSnake and getStandings.  Lengths are in *)
(* tenths of a world unit and headings in quarter turns, so that all       *)
(* arithmetic is exact; what the random generator places under a head      *)
(* (food, a power-up) and what it spawns is an input of update().  Rounds  *)
(* of a room seen through this engine are DuelSpec and ClashSpec (two      *)
(* steered snakes), SoloSpec (one snake that eats, boosts and picks up     *)
(* power-ups on its way to the boundary), FeastSpec (two snakes that keep  *)
(* their heading, eat and pick up power-ups), GraveSpec (two snakes that   *)
(* steer, pick up power-ups, die and leave), StandingsSpec (the game_over  *)
(* of an engine of any standings) and FeedSpec (the recent-events buffer   *)
(* of the tick loop).                                                      *)
(***************************************************************************)
EXTENDS Integers, Sequences, FiniteSets, TLC

(* ---------------------------------------------------------------------- *)
(* Constants of the program and bounds of the model                        *)
(* ---------------------------------------------------------------------- *)

COUNTDOWN_SECONDS == 3

\* opts.maxPlayers of the modelled room (createRoom clamps it to 2..50)
maxPlayers == 2

\* the engine's tick counter is explored up to this value in each round
MaxTick == 2

\* the number of rounds (COUNTDOWN -> PLAYING transitions) explored
MaxRounds == 2

\* score credited to the killer by GameEngine._applyDeath
KILL_SCORE == 50

\* capacity of the kill-feed buffer Room.recentEvents
RECENT_EVENTS_MAX == 50

\* player ids are opaque UUIDs; three sessions exist
PlayerIds == {"p1", "p2", "p3"}

\* the player that called createRoom
Creator == "p1"

WAITING == "waiting"
COUNTDOWN == "countdown"
PLAYING == "playing"
ENDED == "ended"
ROOM_STATES == {WAITING, COUNTDOWN, PLAYING, ENDED}

LAST_STANDING == "last_standing"
TIMED == "timed"
FREE_PLAY == "free_play"
GAME_MODES == {LAST_STANDING, TIMED, FREE_PLAY}

VARIABLES
  state,              \* Room.state
  mode,               \* Room.mode
  creatorId,          \* Room.creatorId
  members,            \* keys of Room.players in insertion order
  pl,                 \* Room.players: member id -> Player flags
  engine,             \* Room.engine (exists = FALSE is null)
  tickInterval,       \* Room._tickInterval is pending
  countdownInterval,  \* Room._countdownInterval is pending
  countdownValue,     \* Room._countdownValue
  timedGameTimeout,   \* Room._timedGameTimeout is pending
  roundNumber,        \* Room.roundNumber
  inDirectory,        \* the room is in RoomManager.rooms
  countdownLog,       \* values of the countdown_tick broadcasts since countdown_start
  gameOverLog,        \* the game_over broadcasts: the round each carries
  lastReason,         \* reason of the last game_over; "" once countdown_start follows
  hookLog,            \* the onGameOver invocations: round
  snakeRemoved,       \* a snake was deleted from the current engine
  recentEvents,       \* Room.recentEvents
  lastTick,           \* the last game_tick broadcast: its round and tick number
  world,              \* Room.engine in full, in the rounds seen through it
  drawn,              \* inputs, bites and spawns explored so far in the round
  gameOver,           \* standings and winner of the game_over of such a round
  emitted             \* events the engine of the round has emitted, in FeedSpec

vars == <<state, mode, creatorId, members, pl, engine, tickInterval,
          countdownInterval, countdownValue, timedGameTimeout, roundNumber,
          inDirectory, countdownLog, gameOverLog, lastReason, hookLog,
          snakeRemoved, recentEvents, lastTick, world, drawn, gameOver,
          emitted>>

(* ---------------------------------------------------------------------- *)
(* Helpers                                                                 *)
(* ---------------------------------------------------------------------- *)

Range(seq) == {seq[i] : i \in 1..Len(seq)}

RemoveFromSeq(seq, x) == SelectSeq(seq, LAMBDA y : y # x)

Restrict(f, S) == [x \in S |-> f[x]]

\* Room.engine = null
NullEngine ==
  [exists |-> FALSE, tick |-> 0, snakes |-> << >>, foodStocked |-> FALSE]

\* the program state as one record, threaded through nested calls; result is
\* the value the running handler returns, snapshot the engine of the
\* game_state message it sends to the joining player (NullEngine: none sent),
\* creatorChanged the number of room_creator_changed broadcasts it makes,
\* hookThrows whether the onGameOver hook throws when the handler calls it and
\* logged the number of errors the handler writes to the console
Cur ==
  [state |-> state, mode |-> mode, creatorId |-> creatorId,
   members |-> members, pl |-> pl, engine |-> engine,
   tickInterval |-> tickInterval, countdownInterval |-> countdownInterval,
   countdownValue |-> countdownValue, timedGameTimeout |-> timedGameTimeout,
   roundNumber |-> roundNumber, inDirectory |-> inDirectory,
   result |-> "none", snapshot |-> NullEngine, creatorChanged |-> 0,
   hookThrows |-> FALSE, logged |-> 0,
   countdownLog |-> countdownLog,
   gameOverLog |-> gameOverLog, lastReason |-> lastReason, hookLog |-> hookLog,
   snakeRemoved |-> snakeRemoved, recentEvents |-> recentEvents,
   lastTick |-> lastTick]

\* the program state when the running handler finds a hook that throws (h)
\* or returns
CurHook(h) == [Cur EXCEPT !.hookThrows = h]

Set(t) ==
  /\ state' = t.state
  /\ mode' = t.mode
  /\ creatorId' = t.creatorId
  /\ members' = t.members
  /\ pl' = t.pl
  /\ engine' = t.engine
  /\ tickInterval' = t.tickInterval
  /\ countdownInterval' = t.countdownInterval
  /\ countdownValue' = t.countdownValue
  /\ timedGameTimeout' = t.timedGameTimeout
  /\ roundNumber' = t.roundNumber
  /\ inDirectory' = t.inDirectory
  /\ countdownLog' = t.countdownLog
  /\ gameOverLog' = t.gameOverLog
  /\ lastReason' = t.lastReason
  /\ hookLog' = t.hookLog
  /\ snakeRemoved' = t.snakeRemoved
  /\ recentEvents' = t.recentEvents
  /\ lastTick' = t.lastTick
  /\ UNCHANGED <<world, drawn, gameOver, emitted>>

(* ---------------------------------------------------------------------- *)
(* Player.js                                                               *)
(* ---------------------------------------------------------------------- *)

\* new Player(...): the flags the room reads
NewPlayer ==
  [connected |-> TRUE, alive |-> FALSE, spectating |-> FALSE,
   disconnectTimer |-> FALSE, score |-> 0, kills |-> 0]

\* Player.reset()
PlayerReset(p) ==
  [p EXCEPT !.alive = FALSE, !.spectating = FALSE, !.score = 0, !.kills = 0]

\* Player.onDisconnect()
OnDisconnect(p) == [p EXCEPT !.connected = FALSE]

\* Player.onReconnect(ws)
OnReconnect(p) == [p EXCEPT !.connected = TRUE, !.disconnectTimer = FALSE]

(* ---------------------------------------------------------------------- *)
(* GameEngine: snake set, liveness, tick                                   *)
(* ---------------------------------------------------------------------- *)

\* new GameEngine(worldSize): no snake, empty food list, tick 0
NewEngine ==
  [exists |-> TRUE, tick |-> 0, snakes |-> << >>, foodStocked |-> FALSE]

\* the SnakeState GameEngine.spawnSnake builds
NewSnake == [alive |-> TRUE, score |-> 0, kills |-> 0]

\* GameEngine.spawnSnake for every id of ids
SpawnSnakes(e, ids) ==
  [e EXCEPT !.snakes = [id \in ids \cup DOMAIN @ |->
                          IF id \in ids THEN NewSnake ELSE @[id]]]

\* GameEngine.removeSnake(playerId)
RemoveSnake(e, id) ==
  [e EXCEPT !.snakes = Restrict(@, DOMAIN @ \ {id})]

AliveIds(e) == {id \in DOMAIN e.snakes : e.snakes[id].alive}

\* GameEngine.getAliveCount()
GetAliveCount(e) == Cardinality(AliveIds(e))

SnakeCount(e) == Cardinality(DOMAIN e.snakes)

\* Update that leaves the tick counter as it is
Update_NoTickAdvance(e, dying, killer) ==
  [e EXCEPT !.foodStocked = TRUE,
            !.snakes = [id \in DOMAIN @ |->
                          IF id \in dying THEN [@[id] EXCEPT !.alive = FALSE]
                          ELSE @[id]]]

\* the deaths of one update that GameEngine._applyDeath credits to id
Credit(id, dying, killer) == Cardinality({v \in dying : killer[v] = id})

\* GameEngine.update(): tick++, the snakes of dying are killed by _applyDeath,
\* which credits killer[v], a snake that survives the update or "none", for
\* each victim v; _maintainFood leaves the food list stocked
Update(e, dying, killer) ==
  [e EXCEPT !.tick = @ + 1,
            !.foodStocked = TRUE,
            !.snakes = [id \in DOMAIN @ |->
                          IF id \in dying THEN [@[id] EXCEPT !.alive = FALSE]
                          ELSE [@[id] EXCEPT
                                  !.kills = @ + Credit(id, dying, killer),
                                  !.score = @ + KILL_SCORE * Credit(id, dying, killer)]]]

\* the events GameEngine._applyDeath pushes for the victims of one update,
\* taken in the order of order: a kill event when a killer is credited, then
\* the death event.  The room buffers and forwards events without reading
\* them, so an event is kept by its type.
RECURSIVE DeathEvents(_, _, _)
DeathEvents(order, dying, killer) ==
  IF order = << >> THEN << >>
  ELSE LET v == Head(order)
           rest == DeathEvents(Tail(order), dying, killer)
       IN IF v \notin dying THEN rest
          ELSE IF killer[v] # "none"
          THEN <<[type |-> "kill"], [type |-> "death"]>> \o rest
          ELSE <<[type |-> "death"]>> \o rest

(* ---------------------------------------------------------------------- *)
(* Room.js                                                                 *)
(* ---------------------------------------------------------------------- *)

ConnectedMembers(s) == {p \in Range(s.members) : s.pl[p].connected}

\* IsFull with > in place of >=
IsFull_OffByOne(s) == Len(s.members) > maxPlayers

\* Room.isFull()
IsFull(s) == Len(s.members) >= maxPlayers

\* EndGame that leaves Room.state as it is
EndGame_StateNotSet(s, reason) ==
  IF s.state = ENDED THEN s
  ELSE [s EXCEPT
          !.tickInterval = FALSE,
          !.timedGameTimeout = FALSE,
          !.gameOverLog = Append(@, s.roundNumber),
          !.lastReason = reason,
          !.hookLog = Append(@, s.roundNumber),
          !.pl = [p \in DOMAIN @ |->
                    [@[p] EXCEPT !.alive = FALSE, !.spectating = FALSE]]]

\* EndGame that does not clear the timed-mode deadline
EndGame_KeepsDeadline(s, reason) ==
  IF s.state = ENDED THEN s
  ELSE [s EXCEPT
          !.state = ENDED,
          !.tickInterval = FALSE,
          !.gameOverLog = Append(@, s.roundNumber),
          !.lastReason = reason,
          !.hookLog = Append(@, s.roundNumber),
          !.pl = [p \in DOMAIN @ |->
                    [@[p] EXCEPT !.alive = FALSE, !.spectating = FALSE]]]

\* EndGame without the try/catch around the hook: a throw leaves _endGame
\* before the members' flags are reset
EndGame_ThrowPropagates(s, reason) ==
  IF s.state = ENDED THEN s
  ELSE LET s1 == [s EXCEPT
                    !.state = ENDED,
                    !.tickInterval = FALSE,
                    !.timedGameTimeout = FALSE,
                    !.gameOverLog = Append(@, s.roundNumber),
                    !.lastReason = reason,
                    !.hookLog = Append(@, s.roundNumber)]
       IN IF s.hookThrows THEN s1
          ELSE [s1 EXCEPT
                  !.pl = [p \in DOMAIN @ |->
                            [@[p] EXCEPT !.alive = FALSE, !.spectating = FALSE]]]

\* Room._endGame(reason): state, timers, game_over broadcast, then the hook
\* inside try/catch (a throw is logged and dropped), then the flags
EndGame(s, reason) ==
  IF s.state = ENDED THEN s
  ELSE [s EXCEPT
          !.state = ENDED,
          !.tickInterval = FALSE,
          !.timedGameTimeout = FALSE,
          !.gameOverLog = Append(@, s.roundNumber),
          !.lastReason = reason,
          !.hookLog = Append(@, s.roundNumber),
          !.logged = IF s.hookThrows THEN @ + 1 ELSE @,
          !.pl = [p \in DOMAIN @ |->
                    [@[p] EXCEPT !.alive = FALSE, !.spectating = FALSE]]]

\* LastStandingEnd with alive < 1 in place of alive <= 1
LastStandingEnd_AliveBelowOne(total, alive) ==
  IF total >= 2 /\ alive < 1 THEN (IF alive = 1 THEN "winner" ELSE "draw")
  ELSE IF total = 1 /\ alive = 0 THEN "game_over"
  ELSE ""

\* Room._checkGameEnd, case LAST_STANDING: the reason, "" when the round goes on
\* the last_standing end condition that names a winner whenever at most
\* one snake is alive
LastStandingEnd_AlwaysWinner(total, alive) ==
  IF total >= 2 /\ alive <= 1 THEN "winner"
  ELSE IF total = 1 /\ alive = 0 THEN "game_over"
  ELSE ""

LastStandingEnd(total, alive) ==
  IF total >= 2 /\ alive <= 1 THEN (IF alive = 1 THEN "winner" ELSE "draw")
  ELSE IF total = 1 /\ alive = 0 THEN "game_over"
  ELSE ""

\* FreePlayEnd counting every member's living snake, connected or not
FreePlayEnd_IgnoresConnected(s, total) ==
  LET connAlive ==
        Cardinality({p \in Range(s.members) : s.pl[p].alive})
  IN IF connAlive = 0 /\ total > 0 THEN "all_dead" ELSE ""

\* Room._checkGameEnd, case FREE_PLAY
FreePlayEnd(s, total) ==
  LET connAlive ==
        Cardinality({p \in Range(s.members) :
                       s.pl[p].connected /\ s.pl[p].alive})
  IN IF connAlive = 0 /\ total > 0 THEN "all_dead" ELSE ""

\* TimedEnd with alive < 1 in place of alive <= 1
TimedEnd_AliveBelowOne(total, alive) ==
  IF total > 0 /\ alive < 1 THEN (IF alive = 1 THEN "winner" ELSE "all_dead")
  ELSE ""

\* Room._checkGameEnd, case TIMED
TimedEnd(total, alive) ==
  IF total > 0 /\ alive <= 1 THEN (IF alive = 1 THEN "winner" ELSE "all_dead")
  ELSE ""

\* Room._checkGameEnd()
CheckGameEnd(s) ==
  IF s.state # PLAYING \/ ~s.engine.exists THEN s
  ELSE
    LET alive == GetAliveCount(s.engine)
        total == SnakeCount(s.engine)
        reason ==
          CASE s.mode = LAST_STANDING -> LastStandingEnd(total, alive)
            [] s.mode = FREE_PLAY -> FreePlayEnd(s, total)
            [] s.mode = TIMED -> TimedEnd(total, alive)
            [] OTHER -> ""
    IN IF reason # "" THEN EndGame(s, reason) ELSE s

\* Room._startTickLoop(): (re)arms the tick interval
StartTickLoop(s) == [s EXCEPT !.tickInterval = TRUE]

\* the members Room._beginGame spawns a snake for
SpawnSet(s) == {p \in Range(s.members) : s.pl[p].connected}

\* BeginGame that spawns into the engine of the previous round when there is
\* one, and keeps the kill-feed buffer
BeginGame_KeepsEngine(s) ==
  LET spawned == SpawnSet(s)
      old == IF s.engine.exists THEN s.engine ELSE NewEngine
      s1 == [s EXCEPT
               !.state = PLAYING,
               !.roundNumber = @ + 1,
               !.engine = SpawnSnakes(old, spawned),
               !.snakeRemoved = FALSE,
               !.pl = [p \in DOMAIN @ |->
                         IF p \in spawned
                         THEN [PlayerReset(@[p]) EXCEPT
                                 !.alive = TRUE, !.spectating = FALSE]
                         ELSE @[p]]]
      s2 == StartTickLoop(s1)
  IN IF s.mode = TIMED THEN [s2 EXCEPT !.timedGameTimeout = TRUE] ELSE s2

\* Room._beginGame()
BeginGame(s) ==
  LET spawned == SpawnSet(s)
      s1 == [s EXCEPT
               !.state = PLAYING,
               !.roundNumber = @ + 1,
               !.recentEvents = << >>,
               !.engine = SpawnSnakes(NewEngine, spawned),
               !.snakeRemoved = FALSE,
               !.pl = [p \in DOMAIN @ |->
                         IF p \in spawned
                         THEN [PlayerReset(@[p]) EXCEPT
                                 !.alive = TRUE, !.spectating = FALSE]
                         ELSE @[p]]]
      s2 == StartTickLoop(s1)
  IN IF s.mode = TIMED THEN [s2 EXCEPT !.timedGameTimeout = TRUE] ELSE s2

\* CountdownDone with < in place of <=
CountdownDone_BelowZero(v) == v < 0

\* the countdown value at which the interval callback starts the game
CountdownDone(v) == v <= 0

\* the setInterval callback of Room.startCountdown
CountdownCallback(s) ==
  LET v == s.countdownValue - 1
      s1 == [s EXCEPT !.countdownValue = v,
                      !.countdownLog = Append(@, v)]
  IN IF CountdownDone(v)
     THEN BeginGame([s1 EXCEPT !.countdownInterval = FALSE])
     ELSE s1

\* CanStartFrom without the state test
CanStartFrom_AnyState(st) == TRUE

\* the room states Room.startCountdown accepts
CanStartFrom(st) == st = WAITING \/ st = ENDED

\* StartCountdown without the test for a connected member
StartCountdown_NoConnectedTest(s) ==
  IF ~CanStartFrom(s.state)
  THEN [s EXCEPT !.result = "error: Game cannot be started in current state"]
  ELSE [s EXCEPT !.state = COUNTDOWN,
                 !.countdownValue = COUNTDOWN_SECONDS,
                 !.countdownLog = << >>,
                 !.lastReason = "",
                 !.countdownInterval = TRUE,
                 !.result = "success"]

\* Room.startCountdown()
StartCountdown(s) ==
  IF ~CanStartFrom(s.state)
  THEN [s EXCEPT !.result = "error: Game cannot be started in current state"]
  ELSE IF Cardinality(ConnectedMembers(s)) < 1
  THEN [s EXCEPT !.result = "error: Need at least 1 connected player to start"]
  ELSE [s EXCEPT !.state = COUNTDOWN,
                 !.countdownValue = COUNTDOWN_SECONDS,
                 !.countdownLog = << >>,
                 !.lastReason = "",
                 !.countdownInterval = TRUE,
                 !.result = "success"]

\* the buffer that is never shifted
PushEvents_NoShift(buf, events) == buf \o events

\* the kill-feed buffer after the events of one tick are pushed
RECURSIVE PushEvents(_, _)
PushEvents(buf, events) ==
  IF events = << >> THEN buf
  ELSE LET b == Append(buf, Head(events))
       IN PushEvents(IF Len(b) > RECENT_EVENTS_MAX THEN Tail(b) ELSE b,
                     Tail(events))

\* the tick callback that mirrors alive, score and kills but leaves the
\* spectating flag of the owner of a dead snake as it is
TickCallback_NoSpectator(s, dying, killer) ==
  IF s.state # PLAYING \/ ~s.engine.exists THEN s
  ELSE
    LET e == Update(s.engine, dying, killer)
        order == SelectSeq(s.members, LAMBDA p : p \in DOMAIN s.engine.snakes)
        s1 == [s EXCEPT
                 !.engine = e,
                 !.recentEvents =
                   PushEvents(@, DeathEvents(order, dying, killer)),
                 !.pl = [p \in DOMAIN @ |->
                           IF p \in DOMAIN e.snakes
                           THEN [@[p] EXCEPT
                                   !.alive = e.snakes[p].alive,
                                   !.score = e.snakes[p].score,
                                   !.kills = e.snakes[p].kills]
                           ELSE @[p]],
                 !.lastTick = [round |-> s.roundNumber, tick |-> e.tick]]
    IN CheckGameEnd(s1)

\* the setInterval callback of Room._startTickLoop
TickCallback(s, dying, killer) ==
  IF s.state # PLAYING \/ ~s.engine.exists THEN s
  ELSE
    LET e == Update(s.engine, dying, killer)
        order == SelectSeq(s.members, LAMBDA p : p \in DOMAIN s.engine.snakes)
        s1 == [s EXCEPT
                 !.engine = e,
                 !.recentEvents =
                   PushEvents(@, DeathEvents(order, dying, killer)),
                 !.pl = [p \in DOMAIN @ |->
                           IF p \in DOMAIN e.snakes
                           THEN [@[p] EXCEPT
                                   !.alive = e.snakes[p].alive,
                                   !.score = e.snakes[p].score,
                                   !.kills = e.snakes[p].kills,
                                   !.spectating =
                                     IF ~e.snakes[p].alive THEN TRUE ELSE @]
                           ELSE @[p]],
                 !.lastTick = [round |-> s.roundNumber, tick |-> e.tick]]
    IN CheckGameEnd(s1)

\* Destroy that does not clear the countdown interval
Destroy_KeepsCountdown(s) ==
  [s EXCEPT !.tickInterval = FALSE,
            !.timedGameTimeout = FALSE,
            !.pl = [p \in DOMAIN @ |-> [@[p] EXCEPT !.disconnectTimer = FALSE]],
            !.engine = NullEngine]

\* Room.destroy()
Destroy(s) ==
  [s EXCEPT !.tickInterval = FALSE,
            !.countdownInterval = FALSE,
            !.timedGameTimeout = FALSE,
            !.pl = [p \in DOMAIN @ |-> [@[p] EXCEPT !.disconnectTimer = FALSE]],
            !.engine = NullEngine]

\* AddPlayer that applies the capacity check to spectators too
AddPlayer_ChecksCapacity(s, p) ==
  IF IsFull(s)
  THEN [s EXCEPT !.result = "error: Room is full"]
  ELSE [s EXCEPT
          !.members = Append(@, p),
          !.pl = [q \in DOMAIN @ \cup {p} |->
                    IF q = p
                    THEN [NewPlayer EXCEPT
                            !.spectating = s.state \in {PLAYING, COUNTDOWN}]
                    ELSE @[q]],
          !.result = "success"]

\* Room.addPlayer(player), for a player that is not a member
AddPlayer(s, p) ==
  IF s.state = PLAYING \/ s.state = COUNTDOWN
  THEN [s EXCEPT
          !.members = Append(@, p),
          !.pl = [q \in DOMAIN @ \cup {p} |->
                    IF q = p THEN [NewPlayer EXCEPT !.spectating = TRUE]
                    ELSE @[q]],
          !.snapshot = IF s.engine.exists THEN s.engine ELSE @,
          !.result = "success: spectator"]
  ELSE IF IsFull(s)
  THEN [s EXCEPT !.result = "error: Room is full"]
  ELSE [s EXCEPT
          !.members = Append(@, p),
          !.pl = [q \in DOMAIN @ \cup {p} |->
                    IF q = p THEN NewPlayer ELSE @[q]],
          !.result = "success"]

\* RemovePlayer that hands the creator role to the last remaining member
RemovePlayer_NewestBecomesCreator(s, p) ==
  IF p \notin Range(s.members) THEN [s EXCEPT !.result = "not_found"]
  ELSE
    LET wasCreator == p = s.creatorId
        rest == RemoveFromSeq(s.members, p)
        s1 == [s EXCEPT
                 !.members = rest,
                 !.pl = Restrict(@, Range(rest)),
                 !.engine = IF @.exists THEN RemoveSnake(@, p) ELSE @,
                 !.snakeRemoved =
                   @ \/ (s.engine.exists /\ p \in DOMAIN s.engine.snakes),
                 !.creatorId =
                   IF wasCreator /\ Len(rest) > 0 THEN rest[Len(rest)] ELSE @,
                 !.creatorChanged =
                   IF wasCreator /\ Len(rest) > 0 THEN @ + 1 ELSE @]
        s2 == IF s1.state = PLAYING THEN CheckGameEnd(s1) ELSE s1
    IN IF Len(rest) = 0
       THEN [Destroy(s2) EXCEPT !.result = "empty"]
       ELSE [s2 EXCEPT !.result = "ok"]

\* removePlayer that leaves the creator as it is
RemovePlayer_KeepsCreator(s, p) ==
  IF p \notin Range(s.members) THEN [s EXCEPT !.result = "not_found"]
  ELSE
    LET rest == RemoveFromSeq(s.members, p)
        s1 == [s EXCEPT
                 !.members = rest,
                 !.pl = Restrict(@, Range(rest)),
                 !.engine = IF @.exists THEN RemoveSnake(@, p) ELSE @,
                 !.snakeRemoved =
                   @ \/ (s.engine.exists /\ p \in DOMAIN s.engine.snakes)]
        s2 == IF s1.state = PLAYING THEN CheckGameEnd(s1) ELSE s1
    IN IF Len(rest) = 0
       THEN [Destroy(s2) EXCEPT !.result = "empty"]
       ELSE [s2 EXCEPT !.result = "ok"]

\* Room.removePlayer(playerId); result is "not_found", "ok" or "empty"
RemovePlayer(s, p) ==
  IF p \notin Range(s.members) THEN [s EXCEPT !.result = "not_found"]
  ELSE
    LET wasCreator == p = s.creatorId
        rest == RemoveFromSeq(s.members, p)
        s1 == [s EXCEPT
                 !.members = rest,
                 !.pl = Restrict(@, Range(rest)),
                 !.engine = IF @.exists THEN RemoveSnake(@, p) ELSE @,
                 !.snakeRemoved =
                   @ \/ (s.engine.exists /\ p \in DOMAIN s.engine.snakes),
                 !.creatorId =
                   IF wasCreator /\ Len(rest) > 0 THEN Head(rest) ELSE @,
                 !.creatorChanged =
                   IF wasCreator /\ Len(rest) > 0 THEN @ + 1 ELSE @]
        s2 == IF s1.state = PLAYING THEN CheckGameEnd(s1) ELSE s1
    IN IF Len(rest) = 0
       THEN [Destroy(s2) EXCEPT !.result = "empty"]
       ELSE [s2 EXCEPT !.result = "ok"]

\* Room.markDisconnected(playerId)
MarkDisconnected(s, p) ==
  IF p \notin Range(s.members) THEN s
  ELSE [s EXCEPT !.pl[p] = OnDisconnect(@)]

(* ---------------------------------------------------------------------- *)
(* RoomManager.js                                                          *)
(* ---------------------------------------------------------------------- *)

\* RoomManager._destroyRoom(roomId)
DestroyRoom(s) ==
  IF ~s.inDirectory THEN s
  ELSE [Destroy(s) EXCEPT !.inDirectory = FALSE]

\* RoomManager.leaveRoom(player)
LeaveRoom(s, p) ==
  IF p \notin Range(s.members) THEN [s EXCEPT !.result = "error: Not in any room"]
  ELSE IF ~s.inDirectory THEN [s EXCEPT !.result = "error: Room not found"]
  ELSE
    LET s1 == RemovePlayer(s, p)
        s2 == IF s1.result = "empty" THEN DestroyRoom(s1) ELSE s1
    IN [s2 EXCEPT !.result = "success"]

\* RoomManager.joinRoom(player, roomId), for a player that is in no room
JoinRoom(s, p) ==
  IF ~s.inDirectory THEN [s EXCEPT !.result = "error: Room not found"]
  ELSE AddPlayer(s, p)

\* RoomManager.startGame(playerId)
StartGame(s, p) ==
  IF ~s.inDirectory \/ p \notin Range(s.members)
  THEN [s EXCEPT !.result = "error: Not in any room"]
  ELSE IF s.creatorId # p
  THEN [s EXCEPT !.result = "error: Only the room creator can start the game"]
  ELSE StartCountdown(s)

\* HandleDisconnect that removes the member at once in every room state
HandleDisconnect_AlwaysRemoves(s, p) ==
  IF p \notin Range(s.members) \/ ~s.inDirectory THEN s
  ELSE LeaveRoom([s EXCEPT !.pl[p] = OnDisconnect(@)], p)

\* RoomManager.handleDisconnect(player), for a member of the room
HandleDisconnect(s, p) ==
  IF p \notin Range(s.members) \/ ~s.inDirectory THEN s
  ELSE
    LET s1 == [s EXCEPT !.pl[p] = OnDisconnect(@)]
    IN IF s1.state = PLAYING \/ s1.state = COUNTDOWN
       THEN [MarkDisconnected(s1, p) EXCEPT !.pl[p].disconnectTimer = TRUE]
       ELSE LeaveRoom(s1, p)

\* the setTimeout callback of RoomManager.handleDisconnect (one shot)
GraceCallback(s, p) ==
  LET s1 == [s EXCEPT !.pl[p].disconnectTimer = FALSE]
  IN IF ~s1.pl[p].connected THEN LeaveRoom(s1, p) ELSE s1

\* HandleReconnect that leaves the grace timer pending
HandleReconnect_KeepsTimer(s, p) == [s EXCEPT !.pl[p].connected = TRUE]

\* RoomManager.handleReconnect(player, ws)
HandleReconnect(s, p) == [s EXCEPT !.pl[p] = OnReconnect(@)]

\* the setTimeout callback of Room._beginGame (one shot)
DeadlineCallback(s) == EndGame([s EXCEPT !.timedGameTimeout = FALSE], "time_up")

(* ---------------------------------------------------------------------- *)
(* GameEngine in full: movement, collisions, food, power-ups               *)
(* ---------------------------------------------------------------------- *)
(* Lengths are integers counted in tenths of a world unit, so that the     *)
(* boost speed 5.5, the speed effect (x 1.4) and the collision thresholds  *)
(* (x 0.6, x 0.7) are exact.  Angles are counted in quarter turns, so that *)
(* cos and sin are exact: a heading is one of 0..3 and a snake turns by at *)
(* most one quarter turn per tick.  Distances are compared by their        *)
(* squares.  The food list is seen through the food types it holds and a   *)
(* field power-up through its type and spawn tick: which item lies under   *)
(* which head is an input of update(), as the item positions are random.   *)

\* tenths of a world unit per world unit
Unit == 10

INITIAL_SNAKE_LENGTH == 10
SNAKE_SPEED == 3 * Unit
\* 5.5 world units
SNAKE_BOOST_SPEED == 55
SNAKE_HEAD_RADIUS == 10 * Unit
SNAKE_SEGMENT_RADIUS == 8 * Unit
GROW_PER_FOOD == 2
BOOST_COST_INTERVAL == 5
MAX_SNAKE_SEGMENTS == 200
FOOD_SCORE == 10
\* value of the bonus food items the engine creates
BONUS_FOOD_SCORE == 30
\* score for picking up a power-up
POWERUP_SCORE == 15
POWERUP_MAX == 5
POWERUP_DESPAWN_TICKS == 200
COLLISION_GRACE_SEGMENTS == 5
BOUNDARY_KILL_MARGIN == 50 * Unit

\* Math.PI and TWO_PI in quarter turns
HalfTurn == 2
FullTurn == 4
\* SNAKE_TURN_RATE: the largest turn of one tick
SNAKE_TURN_RATE == 1

\* the headings an input can ask for
Headings == 0 .. (FullTurn - 1)
\* stands for an angle that is not a finite number (NaN, a string, nothing)
NotFinite == 1000

\* worldSize of the modelled engine, in world units: the constructor takes
\* any size (Room passes 2000, 3000 or 4500); this one puts the boundary 31
\* units from the centre, within reach of the ticks explored
WorldSize == 162

\* POWERUP_TYPES: the effect types and the duration of each, in ticks; the
\* program's durations are 80, 60 and 50 ticks, the model explores effects
\* short enough to expire within the ticks explored
SpeedTicks == 5
ShieldTicks == 4
GhostTicks == 3
POWERUP_TYPES == [speed |-> SpeedTicks, shield |-> ShieldTicks, ghost |-> GhostTicks]
PowerupNames == DOMAIN POWERUP_TYPES

FoodTypes == {"normal", "bonus"}

Cos(a) == <<1, 0, -1, 0>>[a + 1]
Sin(a) == <<0, 1, 0, -1>>[a + 1]

Abs(x) == IF x < 0 THEN -x ELSE x
Sign(x) == IF x > 0 THEN 1 ELSE IF x < 0 THEN -1 ELSE 0
Max(a, b) == IF a >= b THEN a ELSE b
Min(a, b) == IF a <= b THEN a ELSE b

\* squared distance of two points
Dist2(p, q) == (p[1] - q[1]) * (p[1] - q[1]) + (p[2] - q[2]) * (p[2] - q[2])

\* Room.engine = null, seen in full
NoWorld ==
  [exists |-> FALSE, center |-> 0, boundaryRadius |-> 0, tick |-> 0,
   order |-> << >>, snakes |-> << >>, food |-> {}, powerups |-> << >>,
   events |-> << >>]

\* new GameEngine(worldSize)
GameEngine(worldSize) ==
  [exists |-> TRUE,
   center |-> (worldSize * Unit) \div 2,
   boundaryRadius |-> (worldSize * Unit) \div 2 - BOUNDARY_KILL_MARGIN,
   tick |-> 0, order |-> << >>, snakes |-> << >>, food |-> {},
   powerups |-> << >>, events |-> << >>]

Center(w) == <<w.center, w.center>>

\* the head lies outside the circular boundary
Outside(w, p) == Dist2(p, Center(w)) > w.boundaryRadius * w.boundaryRadius

\* the radius inside which _findSpawnPosition draws its candidates (factor
\* 3/4) and the radius of its fallback (half of that)
SafeRadius(w) == (w.boundaryRadius * 3) \div 4
FallbackRadius(w) == SafeRadius(w) \div 2

LiveSnakes(w) == {id \in DOMAIN w.snakes : w.snakes[id].alive}

\* _findSpawnPosition can return pos: a candidate in the safe circle at
\* least 150 units from every living head, or the fallback near the centre
CanSpawnAt(w, pos) ==
  \/ /\ Dist2(pos, Center(w)) <= SafeRadius(w) * SafeRadius(w)
     /\ \A id \in LiveSnakes(w) :
          Dist2(w.snakes[id].segments[1], pos) >= (150 * Unit) * (150 * Unit)
  \/ Dist2(pos, Center(w)) <= FallbackRadius(w) * FallbackRadius(w)

\* the heading of a snake spawned at pos: towards the centre (atan2, which
\* is 0 at the centre itself); pos lies on an axis through the centre
HeadingToCenter(w, pos) ==
  LET dx == w.center - pos[1]
      dy == w.center - pos[2]
  IN  IF dy = 0 THEN (IF dx >= 0 THEN 0 ELSE 2)
      ELSE IF dy > 0 THEN 1 ELSE 3

\* spawnSnake(playerId) with _findSpawnPosition returning pos
SpawnSnake(w, id, pos) ==
  LET angle == HeadingToCenter(w, pos)
      segments == [i \in 1 .. INITIAL_SNAKE_LENGTH |->
                     <<pos[1] - Cos(angle) * (i - 1) * SNAKE_SPEED,
                       pos[2] - Sin(angle) * (i - 1) * SNAKE_SPEED>>]
      snake == [segments |-> segments, angle |-> angle, targetAngle |-> angle,
                boosting |-> FALSE, alive |-> TRUE, score |-> 0, kills |-> 0,
                length |-> INITIAL_SNAKE_LENGTH, growPending |-> 0,
                activePowerups |-> [t \in PowerupNames |-> 0],
                deathTick |-> -1, deathCause |-> "none", killedBy |-> "none",
                spawnTick |-> w.tick]
  IN  [w EXCEPT
         !.order = IF id \in DOMAIN w.snakes THEN @ ELSE Append(@, id),
         !.snakes = [k \in DOMAIN @ \cup {id} |->
                       IF k = id THEN snake ELSE @[k]]]

\* queueInput that switches the boost on and never off
QueueInput_StickyBoost(w, id, angle, boosting) ==
  IF id \notin DOMAIN w.snakes \/ ~w.snakes[id].alive THEN w
  ELSE [w EXCEPT
          !.snakes[id].targetAngle = IF angle # NotFinite THEN angle ELSE @,
          !.snakes[id].boosting = @ \/ boosting]

\* queueInput(playerId, angle, boosting)
QueueInput(w, id, angle, boosting) ==
  IF id \notin DOMAIN w.snakes \/ ~w.snakes[id].alive THEN w
  ELSE [w EXCEPT
          !.snakes[id].targetAngle = IF angle # NotFinite THEN angle ELSE @,
          !.snakes[id].boosting = boosting]

\* Room.handleInput(playerId, angle, boosting) of a room in state st
HandleInput(st, w, id, angle, boosting) ==
  IF st # PLAYING \/ ~w.exists THEN w
  ELSE QueueInput(w, id, angle, boosting)

\* index.js handleInput: the angle a steering message stands for, NotFinite
\* when the message is dropped; legacy directions carry no boost
DirAngles == [right |-> 0, down |-> 1, left |-> 2, up |-> 3]

\* handleInput(player, msg) of index.js, through RoomManager.handleInput
HandleInputMsg(st, w, id, msg) ==
  IF msg.angle # NotFinite
  THEN HandleInput(st, w, id, msg.angle, msg.boosting)
  ELSE IF msg.direction \in DOMAIN DirAngles
  THEN HandleInput(st, w, id, DirAngles[msg.direction], FALSE)
  ELSE w

(* ---- _moveSnakes ---- *)

\* angleDiff normalised to [-PI, PI] by the two while loops
RECURSIVE NormalizeDiff(_)
NormalizeDiff(d) ==
  IF d > HalfTurn THEN NormalizeDiff(d - FullTurn)
  ELSE IF d < -HalfTurn THEN NormalizeDiff(d + FullTurn)
  ELSE d

\* the heading after the smooth turn of one tick, kept in [0, 2 PI)
TurnedAngle(s) ==
  LET angleDiff == NormalizeDiff(s.targetAngle - s.angle)
      turned == IF Abs(angleDiff) <= SNAKE_TURN_RATE THEN s.targetAngle
                ELSE s.angle + Sign(angleDiff) * SNAKE_TURN_RATE
  IN  ((turned % FullTurn) + FullTurn) % FullTurn

\* canBoost without the length test
CanBoost_AnyLength(s) == s.boosting

\* canBoost
CanBoost(s) == s.boosting /\ s.length > INITIAL_SNAKE_LENGTH + 3

\* speed of this tick: base or boost, times 1.4 under the speed effect
SpeedOf(s) ==
  LET speed == IF CanBoost(s) THEN SNAKE_BOOST_SPEED ELSE SNAKE_SPEED
  IN  IF s.activePowerups.speed > 0 THEN (speed * 14) \div 10 ELSE speed

Prefix(seq, n) == IF Len(seq) > n THEN SubSeq(seq, 1, n) ELSE seq

\* the ghost wrap-around: a head outside the boundary is put at 0.8 of its
\* offset on the opposite side of the centre (rounded to a tenth)
GhostWrap(w, p) ==
  IF Outside(w, p)
  THEN <<w.center - (8 * (p[1] - w.center)) \div 10,
         w.center - (8 * (p[2] - w.center)) \div 10>>
  ELSE p

\* the new head of snake s: one step of its speed along its turned heading
NewHead(s) ==
  LET angle == TurnedAngle(s)
      speed == SpeedOf(s)
      head == s.segments[1]
  IN  <<head[1] + Cos(angle) * speed, head[2] + Sin(angle) * speed>>

\* the body of the loop of _moveSnakes for one living snake s, in an engine
\* whose tick is already advanced; dropsFood: a food particle was pushed
MoveSnake(w, s) ==
  LET angle == TurnedAngle(s)
      canBoost == CanBoost(s)
      newHead == NewHead(s)
      targetLen == s.length + s.growPending
      grown == Prefix(<<newHead>> \o s.segments, targetLen)
      settles == s.growPending > 0 /\ Len(grown) >= targetLen
      len1 == IF settles THEN Min(targetLen, MAX_SNAKE_SEGMENTS) ELSE s.length
      grow1 == IF settles THEN 0 ELSE s.growPending
      capped == Len(grown) > MAX_SNAKE_SEGMENTS
      segs2 == Prefix(grown, MAX_SNAKE_SEGMENTS)
      len2 == IF capped THEN MAX_SNAKE_SEGMENTS ELSE len1
      pays == canBoost /\ w.tick % BOOST_COST_INTERVAL = 0
                       /\ len2 > INITIAL_SNAKE_LENGTH + 3
      len3 == IF pays THEN len2 - 1 ELSE len2
      segs4 == IF s.activePowerups.ghost > 0
               THEN [segs2 EXCEPT ![1] = GhostWrap(w, @)] ELSE segs2
  IN  [snake |-> [s EXCEPT !.angle = angle, !.segments = segs4,
                           !.length = len3, !.growPending = grow1],
       dropsFood |-> pays]

\* _moveSnakes()
MoveSnakes(w) ==
  LET moved == [id \in DOMAIN w.snakes |->
                  IF w.snakes[id].alive THEN MoveSnake(w, w.snakes[id])
                  ELSE [snake |-> w.snakes[id], dropsFood |-> FALSE]]
  IN  [w EXCEPT
         !.snakes = [id \in DOMAIN @ |-> moved[id].snake],
         !.food = IF \E id \in DOMAIN moved : moved[id].dropsFood
                  THEN @ \cup {"normal"} ELSE @]

(* ---- _detectCollisions ---- *)

Shielded(s) == s.activePowerups.shield > 0
Ghosted(s) == s.activePowerups.ghost > 0

\* the self-collision loop: the head against the own segments from index
\* selfGrace (0-based) on
HitsSelf(s) ==
  LET selfGrace == Max(8, (Len(s.segments) * 15) \div 100)
      threshold == SNAKE_HEAD_RADIUS + (SNAKE_SEGMENT_RADIUS * 6) \div 10
  IN  \E i \in (selfGrace + 1) .. Len(s.segments) :
        Dist2(s.segments[1], s.segments[i]) < threshold * threshold

\* the first loop without the boundary test
OwnDeath_NoWall(w, id) ==
  LET s == w.snakes[id] IN
  IF ~s.alive THEN << >>
  ELSE IF ~Shielded(s) /\ HitsSelf(s)
  THEN <<[id |-> id, cause |-> "self", killerId |-> "none"]>>
  ELSE << >>

\* the first loop with a self-collision test that ignores the shield
OwnDeath_ShieldIgnored(w, id) ==
  LET s == w.snakes[id] IN
  IF ~s.alive THEN << >>
  ELSE IF Outside(w, s.segments[1]) /\ ~Ghosted(s)
  THEN <<[id |-> id, cause |-> "wall", killerId |-> "none"]>>
  ELSE IF HitsSelf(s)
  THEN <<[id |-> id, cause |-> "self", killerId |-> "none"]>>
  ELSE << >>

\* the first loop: the wall or self death of one living snake, if any
OwnDeath(w, id) ==
  LET s == w.snakes[id] IN
  IF ~s.alive THEN << >>
  ELSE IF Outside(w, s.segments[1]) /\ ~Ghosted(s)
  THEN <<[id |-> id, cause |-> "wall", killerId |-> "none"]>>
  ELSE IF ~Shielded(s) /\ HitsSelf(s)
  THEN <<[id |-> id, cause |-> "self", killerId |-> "none"]>>
  ELSE << >>

RECURSIVE OwnDeaths(_, _)
OwnDeaths(w, i) ==
  IF i > Len(w.order) THEN << >>
  ELSE OwnDeath(w, w.order[i]) \o OwnDeaths(w, i + 1)

Sentenced(deaths, id) == \E k \in 1 .. Len(deaths) : deaths[k].id = id

\* the two heads are within 2 x headRadius
HeadsTouch(a, b) ==
  Dist2(a.segments[1], b.segments[1])
    < (SNAKE_HEAD_RADIUS * 2) * (SNAKE_HEAD_RADIUS * 2)

\* segments[1] || head
PrevHead(s) == IF Len(s.segments) >= 2 THEN s.segments[2] ELSE s.segments[1]

\* colliderIsA: the head of a is at least as near to the previous head of b
\* as the head of b is to the previous head of a
ColliderIsA(a, b) ==
  Dist2(a.segments[1], PrevHead(b)) <= Dist2(b.segments[1], PrevHead(a))

\* the head of a is on the body of b, past the grace segments
HitsBody(a, b) ==
  LET ct == SNAKE_HEAD_RADIUS + (SNAKE_SEGMENT_RADIUS * 7) \div 10
  IN  \E k \in (COLLISION_GRACE_SEGMENTS + 1) .. Len(b.segments) :
        Dist2(a.segments[1], b.segments[k]) < ct * ct

\* the cross-snake loops from the pair (i, j) on, deaths being the list so far
RECURSIVE CrossDeaths(_, _, _, _)
CrossDeaths(w, deaths, i, j) ==
  IF i > Len(w.order) THEN deaths
  ELSE IF j > Len(w.order) THEN CrossDeaths(w, deaths, i + 1, 1)
  ELSE
    LET idA == w.order[i]
        idB == w.order[j]
        a == w.snakes[idA]
        b == w.snakes[idB]
    IN  IF ~a.alive \/ Sentenced(deaths, idA)
        THEN CrossDeaths(w, deaths, i + 1, 1)
        ELSE IF i = j \/ ~b.alive THEN CrossDeaths(w, deaths, i, j + 1)
        ELSE IF j > i /\ HeadsTouch(a, b)
        THEN LET colliderIsA == ColliderIsA(a, b)
                 colliderId == IF colliderIsA THEN idA ELSE idB
                 collider == IF colliderIsA THEN a ELSE b
                 targetId == IF colliderIsA THEN idB ELSE idA
             IN  CrossDeaths(w,
                   IF ~Shielded(collider)
                   THEN Append(deaths, [id |-> colliderId,
                                        cause |-> "head_collision",
                                        killerId |-> targetId])
                   ELSE deaths,
                   i, j + 1)
        ELSE IF ~Ghosted(a) /\ ~Shielded(a) /\ HitsBody(a, b)
        THEN CrossDeaths(w,
               Append(deaths, [id |-> idA, cause |-> "collision",
                               killerId |-> idB]),
               i, j + 1)
        ELSE CrossDeaths(w, deaths, i, j + 1)

\* the deaths list _detectCollisions collects
CollectDeaths(w) == CrossDeaths(w, OwnDeaths(w, 1), 1, 1)

(* ---- _applyDeath ---- *)

\* an event of this.events: its type, the player it is about (the killer of
\* a kill event), the other player involved (the victim of a kill event,
\* the killer of a death event) and the cause or item type
Event(type, playerId, other, detail) ==
  [type |-> type, playerId |-> playerId, other |-> other, detail |-> detail]

\* some third segment of the dead snake lies inside the boundary, so that
\* bonus food is dropped
DropsFood(w, s) ==
  \E i \in 1 .. Len(s.segments) :
    /\ (i - 1) % 3 = 0
    /\ Dist2(s.segments[i], Center(w)) < w.boundaryRadius * w.boundaryRadius

\* _applyDeath(playerId, cause, killerId)
ApplyDeath(w, id, cause, killerId) ==
  IF id \notin DOMAIN w.snakes \/ ~w.snakes[id].alive THEN w
  ELSE
    LET s == w.snakes[id]
        w1 == [w EXCEPT !.snakes[id].alive = FALSE,
                        !.snakes[id].deathTick = w.tick,
                        !.snakes[id].deathCause = cause,
                        !.snakes[id].killedBy = killerId,
                        !.food = IF DropsFood(w, s) THEN @ \cup {"bonus"} ELSE @]
        credited == killerId # "none" /\ killerId \in DOMAIN w1.snakes
                      /\ w1.snakes[killerId].alive
        w2 == IF credited
              THEN [w1 EXCEPT
                      !.snakes[killerId].kills = @ + 1,
                      !.snakes[killerId].score = @ + KILL_SCORE,
                      !.events = Append(@, Event("kill", killerId, id, cause))]
              ELSE w1
    IN  [w2 EXCEPT !.events = Append(@, Event("death", id, killerId, cause))]

\* the last loop running through the list from its end, so that the last
\* cause collected for a snake is the one applied
RECURSIVE ApplyDeaths_LastWins(_, _, _, _)
ApplyDeaths_LastWins(w, deaths, k, killed) ==
  IF k > Len(deaths) THEN w
  ELSE LET d == deaths[Len(deaths) + 1 - k] IN
       IF d.id \in killed THEN ApplyDeaths_LastWins(w, deaths, k + 1, killed)
       ELSE ApplyDeaths_LastWins(ApplyDeath(w, d.id, d.cause, d.killerId),
                                 deaths, k + 1, killed \cup {d.id})

\* the last loop of _detectCollisions: each id of the list dies once
RECURSIVE ApplyDeaths(_, _, _, _)
\* the last loop of _detectCollisions: each id of the list dies once
ApplyDeaths(w, deaths, k, killed) ==
  IF k > Len(deaths) THEN w
  ELSE IF deaths[k].id \in killed THEN ApplyDeaths(w, deaths, k + 1, killed)
  ELSE ApplyDeaths(ApplyDeath(w, deaths[k].id, deaths[k].cause, deaths[k].killerId),
                   deaths, k + 1, killed \cup {deaths[k].id})

\* _detectCollisions()
DetectCollisions(w) == ApplyDeaths(w, CollectDeaths(w), 1, {})

(* ---- food and power-ups ---- *)

Growth(type) == IF type = "bonus" THEN GROW_PER_FOOD + 2 ELSE GROW_PER_FOOD
Points(type) == IF type = "bonus" THEN BONUS_FOOD_SCORE ELSE FOOD_SCORE

\* the inner loop of _checkFood for snake id: it eats, one after the other,
\* the food items under its head, whose types are bites
RECURSIVE Eat(_, _, _)
Eat(w, id, bites) ==
  IF bites = << >> THEN w
  ELSE Eat([w EXCEPT
              !.snakes[id].growPending = @ + Growth(Head(bites)),
              !.snakes[id].score = @ + Points(Head(bites)),
              !.events = Append(@, Event("eat", id, "none", Head(bites)))],
           id, Tail(bites))

\* _checkFood(), bites[id] being the food under the head of snake id
RECURSIVE CheckFood(_, _, _)
CheckFood(w, bites, i) ==
  IF i > Len(w.order) THEN w
  ELSE LET id == w.order[i] IN
       CheckFood(IF w.snakes[id].alive THEN Eat(w, id, bites[id]) ELSE w,
                 bites, i + 1)

\* index of the last field power-up of the type, 0 if there is none
LastOfType(powerups, type) ==
  LET S == {k \in 1 .. Len(powerups) : powerups[k].type = type}
  IN  IF S = {} THEN 0 ELSE CHOOSE k \in S : \A m \in S : m <= k

RemoveAt(seq, k) == SubSeq(seq, 1, k - 1) \o SubSeq(seq, k + 1, Len(seq))

\* the pickup that adds the full duration to the remaining ticks
Pickup_Extends(w, id, type) ==
  LET k == LastOfType(w.powerups, type) IN
  IF k = 0 THEN w
  ELSE [w EXCEPT
          !.snakes[id].activePowerups[type] = @ + POWERUP_TYPES[type],
          !.snakes[id].score = @ + POWERUP_SCORE,
          !.events = Append(@, Event("powerup_pickup", id, "none", type)),
          !.powerups = RemoveAt(@, k)]

\* the inner loop of _checkPowerupPickup for snake id, whose head is over a
\* field power-up of the type
Pickup(w, id, type) ==
  LET k == LastOfType(w.powerups, type) IN
  IF k = 0 THEN w
  ELSE [w EXCEPT
          !.snakes[id].activePowerups[type] = POWERUP_TYPES[type],
          !.snakes[id].score = @ + POWERUP_SCORE,
          !.events = Append(@, Event("powerup_pickup", id, "none", type)),
          !.powerups = RemoveAt(@, k)]

\* _checkPowerupPickup(), picks[id] being the type of the power-up under the
\* head of snake id, "none" if there is none
RECURSIVE CheckPowerupPickup(_, _, _)
CheckPowerupPickup(w, picks, i) ==
  IF i > Len(w.order) THEN w
  ELSE LET id == w.order[i] IN
       CheckPowerupPickup(
         IF w.snakes[id].alive /\ picks[id] # "none"
         THEN Pickup(w, id, picks[id]) ELSE w,
         picks, i + 1)

\* the keys of snake.activePowerups: the program runs through them in the
\* order in which the effects were picked up, the model in this fixed order,
\* which shows only in the order of two powerup_expired events of one snake
\* in one tick
EffectOrder == <<"speed", "shield", "ghost">>

\* the countdown of the effects of one living snake
RECURSIVE TickEffects(_, _, _)
TickEffects(w, id, k) ==
  IF k > Len(EffectOrder) THEN w
  ELSE LET type == EffectOrder[k]
           left == w.snakes[id].activePowerups[type]
       IN  TickEffects(
             IF left = 0 THEN w
             ELSE IF left - 1 <= 0
             THEN [w EXCEPT
                     !.snakes[id].activePowerups[type] = 0,
                     !.events = Append(@, Event("powerup_expired", id, "none", type))]
             ELSE [w EXCEPT !.snakes[id].activePowerups[type] = left - 1],
             id, k + 1)

\* the countdown that does not skip dead snakes
RECURSIVE TickSnakes_DeadToo(_, _)
TickSnakes_DeadToo(w, i) ==
  IF i > Len(w.order) THEN w
  ELSE TickSnakes_DeadToo(TickEffects(w, w.order[i], 1), i + 1)

\* the loop of _tickActivePowerups over the snakes
RECURSIVE TickSnakes(_, _)
TickSnakes(w, i) ==
  IF i > Len(w.order) THEN w
  ELSE LET id == w.order[i] IN
       TickSnakes(IF w.snakes[id].alive THEN TickEffects(w, id, 1) ELSE w, i + 1)

\* the despawn loop, from the end of the list to its start
RECURSIVE Despawn(_, _)
Despawn(w, k) ==
  IF k < 1 THEN w
  ELSE Despawn(
         IF w.tick - w.powerups[k].spawnTick > POWERUP_DESPAWN_TICKS
         THEN [w EXCEPT
                 !.events = Append(@, Event("powerup_despawn", "none", "none",
                                            w.powerups[k].type)),
                 !.powerups = RemoveAt(@, k)]
         ELSE w,
         k - 1)

\* _tickActivePowerups()
TickActivePowerups(w) ==
  LET w1 == TickSnakes(w, 1) IN Despawn(w1, Len(w1.powerups))

\* _maintainFood(): the list is topped up to at least FOOD_BASE_COUNT items
\* of either type
MaintainFood(w) == [w EXCEPT !.food = FoodTypes]

\* _maybeSpawnPowerup(), spawn being the type the generator draws, "none"
\* when it draws no spawn
MaybeSpawnPowerup(w, spawn) ==
  IF LiveSnakes(w) = {} \/ Len(w.powerups) >= POWERUP_MAX \/ spawn = "none"
  THEN w
  ELSE [w EXCEPT
          !.powerups = Append(@, [type |-> spawn, spawnTick |-> w.tick]),
          !.events = Append(@, Event("powerup_spawn", "none", "none", spawn))]

\* update() with _checkFood before _detectCollisions
EngineUpdate_EatsFirst(w, rnd) ==
  LET w0 == [w EXCEPT !.tick = @ + 1, !.events = << >>]
      w1 == MoveSnakes(w0)
      w2 == CheckFood(w1, rnd.bites, 1)
      w3 == DetectCollisions(w2)
      w4 == CheckPowerupPickup(w3, rnd.picks, 1)
      w5 == TickActivePowerups(w4)
      w6 == MaintainFood(w5)
  IN  MaybeSpawnPowerup(w6, rnd.spawn)

\* update(), rnd being what this tick draws and finds: the food under each
\* head (bites), the power-up under each head (picks), the power-up spawned
EngineUpdate(w, rnd) ==
  LET w0 == [w EXCEPT !.tick = @ + 1, !.events = << >>]
      w1 == MoveSnakes(w0)
      w2 == DetectCollisions(w1)
      w3 == CheckFood(w2, rnd.bites, 1)
      w4 == CheckPowerupPickup(w3, rnd.picks, 1)
      w5 == TickActivePowerups(w4)
      w6 == MaintainFood(w5)
  IN  MaybeSpawnPowerup(w6, rnd.spawn)

(* ---- getStandings ---- *)

\* the comparator of getStandings puts a before b: the living before the
\* dead, then the higher score, then the greater length
Before_ScoreFirst(a, b) ==
  IF b.score # a.score THEN b.score - a.score < 0
  ELSE b.length - a.length < 0

Before(a, b) ==
  IF a.alive # b.alive THEN a.alive
  ELSE IF b.score # a.score THEN b.score - a.score < 0
  ELSE b.length - a.length < 0

\* Array.prototype.sort is stable: a snake goes before the first snake the
\* comparator puts it before, behind all others
RECURSIVE InsertSorted(_, _, _)
InsertSorted(w, sorted, id) ==
  IF sorted = << >> THEN <<id>>
  ELSE IF Before(w.snakes[id], w.snakes[Head(sorted)]) THEN <<id>> \o sorted
  ELSE <<Head(sorted)>> \o InsertSorted(w, Tail(sorted), id)

\* [...this.snakes.values()].sort(...): the ids of the first k snakes, sorted
RECURSIVE SortSnakes(_, _)
SortSnakes(w, k) ==
  IF k = 0 THEN << >>
  ELSE InsertSorted(w, SortSnakes(w, k - 1), w.order[k])

\* getStandings()
GetStandings(w) ==
  LET all == SortSnakes(w, Len(w.order)) IN
  [i \in 1 .. Len(all) |->
     LET s == w.snakes[all[i]] IN
     [rank |-> i, id |-> all[i], score |-> s.score, length |-> s.length,
      kills |-> s.kills, alive |-> s.alive, deathTick |-> s.deathTick,
      deathCause |-> s.deathCause,
      survivalTicks |->
        IF s.alive THEN w.tick - s.spawnTick
        ELSE (IF s.deathTick <= 0 THEN w.tick ELSE s.deathTick) - s.spawnTick]]

(* ---------------------------------------------------------------------- *)
(* Specification                                                           *)
(* ---------------------------------------------------------------------- *)

\* the state when RoomManager.createRoom(Creator, {mode}) returns
RoomCreated ==
  /\ mode \in GAME_MODES
  /\ creatorId = Creator
  /\ members = <<Creator>>
  /\ pl = [p \in {Creator} |-> NewPlayer]
  /\ engine = NullEngine
  /\ tickInterval = FALSE
  /\ countdownInterval = FALSE
  /\ countdownValue = 0
  /\ timedGameTimeout = FALSE
  /\ roundNumber = 0
  /\ inDirectory = TRUE
  /\ countdownLog = << >>
  /\ gameOverLog = << >>
  /\ lastReason = ""
  /\ hookLog = << >>
  /\ snakeRemoved = FALSE
  /\ recentEvents = << >>
  /\ lastTick = [round |-> 0, tick |-> 0]

\* no game_over was broadcast
NoGameOver == [sent |-> FALSE]

Init ==
  /\ state = WAITING
  /\ RoomCreated
  /\ world = NoWorld
  /\ drawn = [inputs |-> 0, bites |-> 0, spawns |-> 0]
  /\ gameOver = NoGameOver
  /\ emitted = 0

\* a session that is in no room sends join_room
Join(p) ==
  /\ p \notin Range(members)
  /\ \E t \in {JoinRoom(Cur, p)} : Set(t)

\* a member with an open socket sends leave_room
Leave(p) ==
  /\ p \in Range(members)
  /\ pl[p].connected
  /\ \E h \in BOOLEAN : \E t \in {LeaveRoom(CurHook(h), p)} : Set(t)

\* the socket of a member closes
Disconnect(p) ==
  /\ p \in Range(members)
  /\ pl[p].connected
  /\ \E t \in {HandleDisconnect(Cur, p)} : Set(t)

\* a disconnected member comes back with its session token
Reconnect(p) ==
  /\ p \in Range(members)
  /\ ~pl[p].connected
  /\ inDirectory
  /\ \E t \in {HandleReconnect(Cur, p)} : Set(t)

\* RoomManager.startGame is called for player p
Start(p) ==
  /\ roundNumber < MaxRounds
  /\ \E t \in {StartGame(Cur, p)} : Set(t)

\* the countdown interval fires
CountdownTimer ==
  /\ countdownInterval
  /\ \E t \in {CountdownCallback(Cur)} : Set(t)

\* the tick interval fires
TickTimer ==
  /\ tickInterval
  /\ engine.tick < MaxTick
  /\ \E dying \in SUBSET AliveIds(engine) :
       \E killer \in [dying -> (AliveIds(engine) \ dying) \cup {"none"}] :
         \E h \in BOOLEAN :
           \E t \in {TickCallback(CurHook(h), dying, killer)} : Set(t)

\* the timed-mode deadline fires
DeadlineTimer ==
  /\ timedGameTimeout
  /\ \E h \in BOOLEAN : \E t \in {DeadlineCallback(CurHook(h))} : Set(t)

\* the grace timer of p fires
GraceTimer(p) ==
  /\ p \in Range(members)
  /\ pl[p].disconnectTimer
  /\ \E h \in BOOLEAN : \E t \in {GraceCallback(CurHook(h), p)} : Set(t)

Next ==
  \/ \E p \in PlayerIds : Join(p)
  \/ \E p \in PlayerIds : Leave(p)
  \/ \E p \in PlayerIds : Disconnect(p)
  \/ \E p \in PlayerIds : Reconnect(p)
  \/ \E p \in PlayerIds : Start(p)
  \/ CountdownTimer
  \/ TickTimer
  \/ DeadlineTimer
  \/ \E p \in PlayerIds : GraceTimer(p)

Spec == Init /\ [][Next]_vars

\* timers that are pending do fire: the Node.js event loop runs every due callback
FairSpec ==
  /\ Spec
  /\ WF_vars(CountdownTimer)
  /\ WF_vars(DeadlineTimer)

(* ---------------------------------------------------------------------- *)
(* One round seen through its engine                                       *)
(* ---------------------------------------------------------------------- *)
(* DuelSpec and SoloSpec follow Room.state and the GameEngine of the round *)
(* in full, and leave the other fields of the room alone.  DuelSpec is a   *)
(* round of two steered snakes, without food or power-ups under the heads; *)
(* SoloSpec is a round of one snake that keeps its heading, eats, boosts   *)
(* and picks power-ups up.                                                 *)

\* ticks of a round explored by DuelSpec and by SoloSpec
DuelTicks == 4
SoloTicks == 11

\* food items eaten and power-ups spawned in a round explored by SoloSpec
MaxBites == 1
MaxSpawns == 2

\* steering messages of a round explored by DuelSpec
MaxInputs == 2

roomRest == <<mode, creatorId, members, pl, engine, tickInterval,
              countdownInterval, countdownValue, timedGameTimeout,
              roundNumber, inDirectory, countdownLog, gameOverLog, lastReason,
              hookLog, snakeRemoved, recentEvents, lastTick, emitted>>

\* a point on an axis through the centre, dx and dy being its offsets
Spot(w, dx, dy) == <<w.center + dx, w.center + dy>>

\* offsets from the centre, along an axis, of the spawn points explored
SpotOffsets == {-230, 0, 110}
Spots(w) ==
  {Spot(w, d, 0) : d \in SpotOffsets} \cup {Spot(w, 0, d) : d \in SpotOffsets}

\* _beginGame: the engine of the round and one snake per member of cast, at
\* the points at
RECURSIVE SpawnAll(_, _, _)
SpawnAll(w, cast, at) ==
  IF cast = << >> THEN w
  ELSE SpawnAll(SpawnSnake(w, Head(cast), at[Head(cast)]), Tail(cast), at)

RECURSIVE CanSpawnAll(_, _, _)
CanSpawnAll(w, cast, at) ==
  IF cast = << >> THEN TRUE
  ELSE /\ CanSpawnAt(w, at[Head(cast)])
       /\ CanSpawnAll(SpawnSnake(w, Head(cast), at[Head(cast)]), Tail(cast), at)

\* startCountdown
RoundCountdown ==
  /\ state = WAITING
  /\ state' = COUNTDOWN
  /\ UNCHANGED <<roomRest, world, drawn, gameOver>>

\* _beginGame at the end of the countdown, for the members cast, spawned at
\* points of spots
RoundBegin(cast, spots) ==
  /\ state = COUNTDOWN
  /\ \E at \in [Range(cast) -> spots] :
       /\ CanSpawnAll(GameEngine(WorldSize), cast, at)
       /\ world' = SpawnAll(GameEngine(WorldSize), cast, at)
  /\ state' = PLAYING
  /\ UNCHANGED <<roomRest, drawn, gameOver>>

\* the standings and the winner of the gameOverData of _endGame
NoWinner == [id |-> "none", score |-> 0]
GameOverData(w) ==
  LET standings == IF w.exists THEN GetStandings(w) ELSE << >>
      winner == IF Len(standings) > 0
                THEN [id |-> standings[1].id, score |-> standings[1].score]
                ELSE NoWinner
  IN  [sent |-> TRUE, standings |-> standings, winner |-> winner]

\* _endGame: the state, the standings and the winner of game_over
RoundEnd ==
  /\ state = PLAYING
  /\ state' = ENDED
  /\ gameOver' = GameOverData(world)
  /\ UNCHANGED <<roomRest, world, drawn>>

\* the message of a client that keeps the heading of its snake
KeepHeading(p, b) ==
  [angle |-> IF world.exists /\ p \in DOMAIN world.snakes
             THEN world.snakes[p].targetAngle ELSE 0,
   direction |-> "none", boosting |-> b]

\* player p sends the steering message msg
Input(p, msg) ==
  /\ drawn.inputs < MaxInputs
  /\ world' = HandleInputMsg(state, world, p, msg)
  /\ drawn' = [drawn EXCEPT !.inputs = @ + 1]
  /\ UNCHANGED <<state, roomRest, gameOver>>

\* player p switches its boost on or off and keeps its heading
Boost(p, b) ==
  /\ world' = HandleInputMsg(state, world, p, KeepHeading(p, b))
  /\ UNCHANGED <<state, roomRest, drawn, gameOver>>

\* the food a tick can find under the heads: nothing under a dead head, at
\* most budget items in all, of the types the list holds when _checkFood runs
RECURSIVE BiteCount(_, _)
BiteCount(bites, ids) ==
  IF ids = {} THEN 0
  ELSE LET id == CHOOSE x \in ids : TRUE
       IN  Len(bites[id]) + BiteCount(bites, ids \ {id})

BiteSeqs(types, n) ==
  UNION {[1 .. k -> types] : k \in 0 .. n}

\* the engine when _checkFood runs in the update of w
AtFoodCheck(w) ==
  DetectCollisions(MoveSnakes([w EXCEPT !.tick = @ + 1, !.events = << >>]))

Draws(w, maxBites, spawns) ==
  LET w2 == AtFoodCheck(w)
      ids == DOMAIN w.snakes
      held == {w.powerups[k].type : k \in 1 .. Len(w.powerups)}
  IN  {rnd \in [bites : [ids -> BiteSeqs(w2.food, maxBites)],
               picks : [ids -> held \cup {"none"}],
               spawn : spawns \cup {"none"}] :
         /\ BiteCount(rnd.bites, ids) <= maxBites
         /\ \A id \in ids :
              ~w2.snakes[id].alive =>
                rnd.bites[id] = << >> /\ rnd.picks[id] = "none"}

\* update() has spawned a power-up
Spawned(w) == \E k \in 1 .. Len(w.events) : w.events[k].type = "powerup_spawn"

\* the tick interval fires: update() with the draws rnd
Tick(maxTick, maxBites, spawns) ==
  /\ state = PLAYING
  /\ world.tick < maxTick
  /\ \E rnd \in Draws(world, Min(maxBites, MaxBites - drawn.bites),
                      IF drawn.spawns < MaxSpawns THEN spawns ELSE {}) :
       \E w \in {EngineUpdate(world, rnd)} :
         /\ world' = w
         /\ drawn' = [drawn EXCEPT
                        !.bites = @ + BiteCount(rnd.bites, DOMAIN world.snakes),
                        !.spawns = IF Spawned(w) THEN @ + 1 ELSE @]
  /\ UNCHANGED <<state, roomRest, gameOver>>

\* the steering messages explored: an angle or none, a legacy direction, one
\* that is none of the four, or none, and the boost flag
Directions == {"none", "left", "sideways"}
DuelMsgs ==
  [angle : Headings, direction : {"none"}, boosting : BOOLEAN]
    \cup [angle : {NotFinite}, direction : Directions, boosting : BOOLEAN]

DuelCasts == {<<"p1", "p2">>}

\* the room of the round: created, in timed mode
EngineInit == Init /\ mode = TIMED

DuelNext ==
  \/ RoundCountdown
  \/ \E cast \in DuelCasts : RoundBegin(cast, Spots(GameEngine(WorldSize)))
  \/ \E p \in PlayerIds : \E msg \in DuelMsgs : Input(p, msg)
  \/ Tick(DuelTicks, 0, {})
  \/ RoundEnd

DuelSpec == EngineInit /\ [][DuelNext]_vars

\* the power-up types SoloSpec lets the engine spawn
\* steering messages of a round explored by ClashSpec
MaxSteers == 3

\* player p steers towards the heading angle, boost off
Steer(p, angle) ==
  /\ drawn.inputs < MaxSteers
  /\ world' = HandleInputMsg(state, world, p,
                 [angle |-> angle, direction |-> "none", boosting |-> FALSE])
  /\ drawn' = [drawn EXCEPT !.inputs = @ + 1]
  /\ UNCHANGED <<state, roomRest, gameOver>>

\* a round of two snakes that steer without boost, for a few ticks
ClashNext ==
  \/ RoundCountdown
  \/ \E cast \in DuelCasts : RoundBegin(cast, Spots(GameEngine(WorldSize)))
  \/ \E p \in PlayerIds : \E angle \in Headings : Steer(p, angle)
  \/ Tick(DuelTicks, 0, {})
  \/ RoundEnd

ClashSpec == EngineInit /\ [][ClashNext]_vars

\* the engines whose standings are explored: up to three snakes, each alive
\* or dead of the wall at tick 1, with a score and a length of these
StandingsCasts == {<< >>, <<"p1">>, <<"p1", "p2">>, <<"p1", "p2", "p3">>}
StandingsScores == {0, FOOD_SCORE, KILL_SCORE}
StandingsLengths == {INITIAL_SNAKE_LENGTH, INITIAL_SNAKE_LENGTH + GROW_PER_FOOD}
StandingsSnakes ==
  LET w == SpawnSnake(GameEngine(WorldSize), "p1", Center(GameEngine(WorldSize)))
      s == w.snakes["p1"]
  IN  {[s EXCEPT !.alive = alive, !.score = score, !.length = length,
                 !.deathTick = IF alive THEN @ ELSE 1,
                 !.deathCause = IF alive THEN @ ELSE "wall"] :
         alive \in BOOLEAN, score \in StandingsScores,
         length \in StandingsLengths}
StandingsWorlds ==
  UNION {{[GameEngine(WorldSize) EXCEPT
             !.tick = 1, !.order = cast, !.snakes = snakes] :
            snakes \in [Range(cast) -> StandingsSnakes]} :
         cast \in StandingsCasts}

\* a room in a round whose engine is any of these, up to its game_over
StandingsInit ==
  /\ state = PLAYING
  /\ RoomCreated
  /\ mode = TIMED
  /\ world \in StandingsWorlds
  /\ drawn = [inputs |-> 0, bites |-> 0, spawns |-> 0]
  /\ gameOver = NoGameOver
  /\ emitted = 0

StandingsNext == RoundEnd

StandingsSpec == StandingsInit /\ [][StandingsNext]_vars

\* events of one round and of one tick explored by FeedSpec
MaxEmitted == 53
MaxBatch == 3

feedRest == <<mode, creatorId, members, pl, engine, tickInterval,
              countdownInterval, countdownValue, timedGameTimeout,
              inDirectory, countdownLog, gameOverLog, lastReason, hookLog,
              snakeRemoved, lastTick, world, drawn, gameOver>>

\* startCountdown, from WAITING or ENDED
FeedCountdown ==
  /\ state \in {WAITING, ENDED}
  /\ roundNumber < MaxRounds
  /\ state' = COUNTDOWN
  /\ UNCHANGED <<roundNumber, recentEvents, emitted, feedRest>>

\* _beginGame: the round number and the empty buffer
FeedBegin ==
  /\ state = COUNTDOWN
  /\ state' = PLAYING
  /\ roundNumber' = roundNumber + 1
  /\ recentEvents' = << >>
  /\ emitted' = 0
  /\ UNCHANGED feedRest

\* the tick interval fires and update() returns k events, each told from
\* the others by its round and its place among the events of the round
FeedTick(k) ==
  /\ state = PLAYING
  /\ emitted + k <= MaxEmitted
  /\ LET events == [i \in 1 .. k |->
                      [round |-> roundNumber, serial |-> emitted + i]]
     IN  recentEvents' = PushEvents(recentEvents, events)
  /\ emitted' = emitted + k
  /\ UNCHANGED <<state, roundNumber, feedRest>>

\* _endGame
FeedEnd ==
  /\ state = PLAYING
  /\ state' = ENDED
  /\ UNCHANGED <<roundNumber, recentEvents, emitted, feedRest>>

\* the events of getFullGameState(): this.recentEvents.slice(-20)
ResyncEvents(buf) ==
  IF Len(buf) > 20 THEN SubSeq(buf, Len(buf) - 19, Len(buf)) ELSE buf

FeedNext ==
  \/ FeedCountdown
  \/ FeedBegin
  \/ \E k \in 0 .. MaxBatch : FeedTick(k)
  \/ FeedEnd

FeedSpec == Init /\ [][FeedNext]_vars

SoloSpawns == {"speed", "ghost"}

SoloNext ==
  \/ RoundCountdown
  \/ RoundBegin(<<"p1">>, {Center(GameEngine(WorldSize))})
  \/ \E b \in BOOLEAN : Boost("p1", b)
  \/ Tick(SoloTicks, MaxBites, SoloSpawns)

SoloSpec == EngineInit /\ [][SoloNext]_vars

\* ticks of a round explored by FeastSpec
FeastTicks == 3

\* a round of two snakes that keep their heading, eat and pick up shield
\* and ghost power-ups on their way
FeastSpawns == {"shield", "ghost"}

FeastNext ==
  \/ RoundCountdown
  \/ \E cast \in DuelCasts : RoundBegin(cast, Spots(GameEngine(WorldSize)))
  \/ Tick(FeastTicks, MaxBites, FeastSpawns)

FeastSpec == EngineInit /\ [][FeastNext]_vars

\* Room.removePlayer() during a round: engine.removeSnake(p)
Depart(p) ==
  /\ state = PLAYING
  /\ world.exists
  /\ p \in DOMAIN world.snakes
  /\ world' = [world EXCEPT
                 !.snakes = [id \in DOMAIN @ \ {p} |-> @[id]],
                 !.order = SelectSeq(@, LAMBDA id : id # p)]
  /\ UNCHANGED <<state, roomRest, drawn, gameOver>>

\* steering inputs of a round explored by GraveSpec
MaxTurns == 1

\* a round of two snakes that steer, pick up shield and ghost power-ups,
\* die and leave
GraveNext ==
  \/ RoundCountdown
  \/ \E cast \in DuelCasts : RoundBegin(cast, Spots(GameEngine(WorldSize)))
  \/ \E p \in PlayerIds : \E angle \in Headings :
       drawn.inputs < MaxTurns /\ Steer(p, angle)
  \/ Tick(DuelTicks, 0, FeastSpawns)
  \/ \E p \in PlayerIds : Depart(p)

GraveSpec == EngineInit /\ [][GraveNext]_vars

(* ---------------------------------------------------------------------- *)
(* Room lifecycle                                                          *)
(* ---------------------------------------------------------------------- *)

LegalSteps ==
  {<<WAITING, COUNTDOWN>>, <<ENDED, COUNTDOWN>>,
   <<COUNTDOWN, PLAYING>>, <<PLAYING, ENDED>>}

\* C1: whatever handler or timer runs, the room state changes only by
\* WAITING->COUNTDOWN, ENDED->COUNTDOWN, COUNTDOWN->PLAYING and PLAYING->ENDED.
C1_OnlyLegalSteps ==
  [][state' # state => <<state, state'>> \in LegalSteps]_vars

\* two complete rounds: all four steps have been taken
C1_Witness ==
  /\ state = ENDED
  /\ roundNumber = 2
  /\ gameOverLog = <<1, 2>>

(* ---------------------------------------------------------------------- *)
(* End conditions                                                          *)
(* ---------------------------------------------------------------------- *)

\* a step in which the tick callback advanced the engine (and ran the check)
TickRan == engine.exists /\ engine'.exists /\ engine'.tick = engine.tick + 1

\* a step in which a member was removed (and, while PLAYING, the check ran)
RemovalRan == Len(members') < Len(members)

LastStandingOver(e) ==
  \/ SnakeCount(e) >= 2 /\ GetAliveCount(e) <= 1
  \/ SnakeCount(e) = 1 /\ GetAliveCount(e) = 0

LastStandingReason(e) ==
  IF SnakeCount(e) >= 2
  THEN (IF GetAliveCount(e) = 1 THEN "winner" ELSE "draw")
  ELSE "game_over"

\* C2: in last_standing mode, in a round from which no snake has been removed,
\* the check after a tick ends the round exactly when (2 or more snakes were
\* spawned and at most 1 is alive) or (1 snake was spawned and it is dead), the
\* reason being winner / draw / game_over accordingly; the round never ends
\* otherwise, in particular never while 2 or more snakes are alive.
C2_LastStandingEnd ==
  [][(mode = LAST_STANDING /\ state = PLAYING /\ ~snakeRemoved') =>
       /\ TickRan => (state' = ENDED <=> LastStandingOver(engine'))
       /\ state' = ENDED =>
            /\ TickRan
            /\ LastStandingOver(engine')
            /\ lastReason' = LastStandingReason(engine')
       /\ GetAliveCount(engine') >= 2 => state' = PLAYING]_vars

\* a round of 2 or more snakes, none removed, that went on after its first
\* check and was ended by the second one with a single survivor
C2_Witness ==
  /\ mode = LAST_STANDING
  /\ state = ENDED
  /\ ~snakeRemoved
  /\ engine.tick = 2
  /\ SnakeCount(engine) >= 2
  /\ GetAliveCount(engine) = 1
  /\ lastReason = "winner"

TimedRoundOn == mode = TIMED /\ state = PLAYING /\ inDirectory

FreePlayOver ==
  /\ SnakeCount(engine') > 0
  /\ ~ \E p \in Range(members') :
         /\ pl[p].connected
         /\ ~pl[p].spectating
         /\ p \in AliveIds(engine')

CompletedRounds == IF state = PLAYING THEN roundNumber - 1 ELSE roundNumber

\* C5: the onGameOver hook has been invoked exactly once, with its round
\* number, for every round that reached ENDED and for no other round, and
\* exactly one game_over has been broadcast for each of them.
C5_HookOncePerRound ==
  /\ hookLog = [i \in 1..CompletedRounds |-> i]
  /\ gameOverLog = hookLog

\* a timed round ended by a removal while the deadline was pending, after an
\* earlier round
C5_Witness ==
  /\ mode = TIMED
  /\ state = ENDED
  /\ hookLog = <<1, 2>>
  /\ snakeRemoved
  /\ lastReason = "winner"

C7_DestroyedRoomIsInert ==
  /\ [](members = << >> => ~inDirectory)
  /\ [](~inDirectory =>
          /\ ~countdownInterval /\ ~tickInterval /\ ~timedGameTimeout
          /\ \A p \in DOMAIN pl : ~pl[p].disconnectTimer
          /\ ~engine.exists)
  /\ [][~inDirectory =>
          /\ state' = state
          /\ engine' = engine
          /\ countdownLog' = countdownLog
          /\ gameOverLog' = gameOverLog
          /\ roundNumber' = roundNumber]_vars

\* a room emptied in the middle of a countdown
C7_Witness ==
  /\ ~inDirectory
  /\ members = << >>
  /\ state = COUNTDOWN
  /\ countdownLog = <<2>>

(* ---------------------------------------------------------------------- *)
(* Starting a round                                                        *)
(* ---------------------------------------------------------------------- *)

ErrorResults ==
  {"error: Not in any room",
   "error: Only the room creator can start the game",
   "error: Game cannot be started in current state",
   "error: Need at least 1 connected player to start"}

\* the claim's condition for a start request of p to begin a countdown
MayStart(p) ==
  /\ inDirectory
  /\ p \in Range(members)
  /\ p = creatorId
  /\ state \in {WAITING, ENDED}
  /\ \E q \in Range(members) : pl[q].connected

\* C8: in every reachable state, a start request of any player begins a
\* countdown (state COUNTDOWN, value COUNTDOWN_SECONDS, interval armed) if and
\* only if the caller is the creator, the state is WAITING or ENDED and a
\* member is connected; otherwise it returns an error and changes nothing.
C8_StartRequest ==
  \A p \in PlayerIds :
    LET r == StartGame(Cur, p)
    IN IF MayStart(p)
       THEN /\ r.result = "success"
            /\ r.state = COUNTDOWN
            /\ r.countdownValue = COUNTDOWN_SECONDS
            /\ r.countdownInterval
       ELSE /\ r.result \in ErrorResults
            /\ r = [Cur EXCEPT !.result = r.result]

\* the creator asks to start an ENDED room whose members are all disconnected
C8_Witness ==
  /\ state = ENDED
  /\ inDirectory
  /\ creatorId \in Range(members)
  /\ ConnectedMembers(Cur) = {}
  /\ StartGame(Cur, creatorId).result
       = "error: Need at least 1 connected player to start"

\* a countdown is running in a room of the directory
CountdownOn == state = COUNTDOWN /\ inDirectory

\* C9: the countdown_tick values after a start are COUNTDOWN_SECONDS-1, ..., 0,
\* one per firing of the interval; the step that broadcasts 0 is the step that
\* enters PLAYING, and it clears the interval, which is pending in no other
\* state than COUNTDOWN; with timers that fire, a room in COUNTDOWN reaches
\* PLAYING unless it is destroyed first.
\* The last part is stated by the premises of the leads-to rule for
\* WF_vars(CountdownTimer), with countdownValue as the decreasing measure.
C9_Countdown ==
  /\ [](\A i \in 1..Len(countdownLog) : countdownLog[i] = COUNTDOWN_SECONDS - i)
  /\ [](Len(countdownLog) <= COUNTDOWN_SECONDS)
  /\ [](countdownInterval => state = COUNTDOWN)
  /\ [][CountdownTimer =>
          /\ countdownLog' = Append(countdownLog, countdownValue - 1)
          /\ (countdownValue - 1 = 0) <=> (state' = PLAYING)
          /\ state' = PLAYING => ~countdownInterval']_vars
  /\ [][(state = COUNTDOWN /\ state' = PLAYING) => CountdownTimer]_vars
  /\ [](CountdownOn =>
          (ENABLED CountdownTimer /\ countdownValue \in 1..COUNTDOWN_SECONDS))
  /\ [][CountdownOn =>
          \/ CountdownOn' /\ countdownValue' <= countdownValue
          \/ state' = PLAYING
          \/ ~inDirectory']_vars
  /\ [][(CountdownOn /\ CountdownTimer) =>
          \/ state' = PLAYING
          \/ CountdownOn' /\ countdownValue' < countdownValue]_vars

\* the second round has just begun after a full countdown
C9_Witness ==
  /\ state = PLAYING
  /\ roundNumber = 2
  /\ engine.tick = 0
  /\ countdownLog = <<2, 1, 0>>
  /\ ~countdownInterval

(* ---------------------------------------------------------------------- *)
(* Beginning a round                                                       *)
(* ---------------------------------------------------------------------- *)

\* C10: when the room goes COUNTDOWN -> PLAYING, the snakes of the new engine
\* are exactly the members that are connected and not spectating at that
\* moment.
C10_SnakesForNonSpectators ==
  [][(state = COUNTDOWN /\ state' = PLAYING) =>
       DOMAIN engine'.snakes =
         {p \in Range(members) : pl[p].connected /\ ~pl[p].spectating}]_vars

(* ---------------------------------------------------------------------- *)
(* The engine of a room                                                    *)
(* ---------------------------------------------------------------------- *)

\* C11: in every reachable state the room holds an engine only while its
\* state is PLAYING: none in WAITING, in ENDED or in any COUNTDOWN.
C11_EngineOnlyWhilePlaying == engine.exists => state = PLAYING

(* ---------------------------------------------------------------------- *)
(* Tick numbers                                                            *)
(* ---------------------------------------------------------------------- *)

\* C12, as claimed: over the whole life of the room every game_tick carries
\* a tick number greater than the one of the game_tick broadcast before it.
C12_TicksIncreaseForever ==
  [][lastTick' # lastTick => lastTick'.tick > lastTick.tick]_vars

\* C12, amended: every step that advances the engine broadcasts one
\* game_tick, and game_tick is broadcast by nothing else; it carries the tick
\* number of the engine, which is 1 for the first game_tick of a round and one
\* more than the previous game_tick's number within a round, whatever joins,
\* leaves and reconnects happen in between; the numbers start again at 1 in
\* the next round.
C12_TicksIncreaseWithinRound ==
  /\ [](tickInterval => (state = PLAYING /\ engine.exists))
  /\ [][TickRan => lastTick' # lastTick]_vars
  /\ [][lastTick' # lastTick =>
          /\ TickRan
          /\ lastTick' = [round |-> roundNumber, tick |-> engine'.tick]
          /\ IF lastTick.round = roundNumber
             THEN lastTick'.tick = lastTick.tick + 1
             ELSE lastTick.round < roundNumber /\ lastTick'.tick = 1]_vars

\* the second game_tick of the second round, sent to a room that a spectator
\* has joined
C12_Witness ==
  /\ lastTick = [round |-> 2, tick |-> 2]
  /\ Len(members) = 3

(* ---------------------------------------------------------------------- *)
(* A new round                                                             *)
(* ---------------------------------------------------------------------- *)

\* C13: each COUNTDOWN -> PLAYING step increments the round counter by
\* exactly 1 (and nothing else changes it) and installs a fresh engine: tick
\* 0, an empty food list, and no snake but the ones spawned in this step, each
\* alive with score 0 and kills 0, as are its owner's score and kills; the
\* recent-events buffer is emptied; and the k-th game_over of the room reports
\* round k.
C13_FreshRound ==
  /\ [][(state = COUNTDOWN /\ state' = PLAYING) =>
          /\ roundNumber' = roundNumber + 1
          /\ engine'.exists
          /\ engine'.tick = 0
          /\ ~engine'.foodStocked
          /\ recentEvents' = << >>
          /\ DOMAIN engine'.snakes \subseteq Range(members')
          /\ \A p \in DOMAIN engine'.snakes :
               /\ engine'.snakes[p] = [alive |-> TRUE, score |-> 0, kills |-> 0]
               /\ pl'[p].alive /\ pl'[p].score = 0 /\ pl'[p].kills = 0]_vars
  /\ [][roundNumber' # roundNumber => (state = COUNTDOWN /\ state' = PLAYING)]_vars
  /\ [][gameOverLog' # gameOverLog =>
          /\ gameOverLog' = Append(gameOverLog, roundNumber)
          /\ Len(gameOverLog') = roundNumber]_vars

\* the second round has just begun after a first round with two ticks and a
\* credited kill; a member that was disconnected when it began has no snake
\* and still carries its score of the first round
C13_Witness ==
  /\ state = PLAYING
  /\ roundNumber = 2
  /\ engine.tick = 0
  /\ lastTick = [round |-> 1, tick |-> 2]
  /\ DOMAIN engine.snakes # {}
  /\ \E p \in Range(members) :
       /\ p \notin DOMAIN engine.snakes
       /\ pl[p].score = KILL_SCORE
       /\ pl[p].kills = 1

(* ---------------------------------------------------------------------- *)
(* Joining                                                                 *)
(* ---------------------------------------------------------------------- *)

C16_RemovalEndsLastStanding ==
  [][(/\ mode = LAST_STANDING
      /\ state = PLAYING
      /\ RemovalRan
      /\ Len(members') > 0
      /\ SnakeCount(engine) >= 2
      /\ GetAliveCount(engine') <= 1) =>
       (state' = ENDED /\ lastReason' \in {"winner", "draw"})]_vars

\* the position of member q in the membership (insertion) order
JoinIndex(q) == CHOOSE i \in 1..Len(members) : members[i] = q

\* the member that joined earliest among those that remain when p is removed
EarliestBut(p) ==
  CHOOSE q \in Range(members) \ {p} :
    \A q2 \in Range(members) \ {p} : JoinIndex(q) <= JoinIndex(q2)

\* C17: in every reachable state, removing the creator while other members
\* remain makes the earliest-joined remaining member the creator, with exactly
\* one room_creator_changed broadcast; removing any other member, or the last
\* member, leaves the creator as it is, with no such broadcast.
C17_CreatorTransfer ==
  \A p \in Range(members) :
    inDirectory =>
      LET r == LeaveRoom(Cur, p)
      IN /\ p \notin Range(r.members)
         /\ IF p = creatorId /\ Len(members) > 1
            THEN r.creatorId = EarliestBut(p) /\ r.creatorChanged = 1
            ELSE r.creatorId = creatorId /\ r.creatorChanged = 0

\* the creator p1 has left, and p3, which joined before p2, is the creator
C17_Witness ==
  /\ members = <<"p3", "p2">>
  /\ creatorId = "p3"
  /\ inDirectory

(* ---------------------------------------------------------------------- *)
(* Disconnect and reconnect                                                *)
(* ---------------------------------------------------------------------- *)

\* the end condition of the room's mode once member p and its snake are gone
RoundOverWithout(p) ==
  LET e == RemoveSnake(engine, p)
  IN CASE mode = LAST_STANDING -> LastStandingOver(e)
       [] mode = TIMED -> SnakeCount(e) > 0 /\ GetAliveCount(e) <= 1
       [] mode = FREE_PLAY ->
            /\ SnakeCount(e) > 0
            /\ ~ \E q \in Range(members) \ {p} : pl[q].connected /\ pl[q].alive

\* C18: in every reachable state, the disconnect of a member removes it at
\* once if the room is WAITING or ENDED; if the room is COUNTDOWN or PLAYING
\* it keeps the member, its snake, the engine and the room state, marks the
\* member disconnected and starts its grace timer.  A pending grace timer
\* belongs to a member that is still disconnected, and when it fires the
\* member is removed by the removal path: its snake is deleted, the creator
\* role is transferred if it was the creator, a PLAYING round is ended exactly
\* if its end condition holds without the member, and the room is destroyed
\* if it is left empty.
C18_DisconnectAndGrace ==
  \A p \in Range(members) :
    /\ (inDirectory /\ pl[p].connected) =>
         LET r == HandleDisconnect(Cur, p)
         IN IF state \in {WAITING, ENDED}
            THEN /\ p \notin Range(r.members)
                 /\ r.members = << >> => ~r.inDirectory
            ELSE /\ r.members = members
                 /\ r.engine = engine
                 /\ r.state = state
                 /\ r.creatorId = creatorId
                 /\ ~r.pl[p].connected
                 /\ r.pl[p].disconnectTimer
    /\ pl[p].disconnectTimer =>
         /\ ~pl[p].connected
         /\ inDirectory
         /\ LET r == GraceCallback(Cur, p)
            IN /\ p \notin Range(r.members)
               /\ p \notin DOMAIN r.engine.snakes
               /\ (p = creatorId /\ Len(members) > 1) =>
                    r.creatorId = EarliestBut(p)
               /\ p # creatorId => r.creatorId = creatorId
               /\ Len(members) = 1 => (~r.inDirectory /\ ~r.engine.exists)
               /\ (state = PLAYING /\ Len(members) > 1) =>
                    (r.state = ENDED <=> RoundOverWithout(p))

\* the creator is disconnected in a PLAYING room, its snake alive and its
\* grace timer pending, and the removal by that timer would end the round
C18_Witness ==
  /\ state = PLAYING
  /\ creatorId \in Range(members)
  /\ pl[creatorId].disconnectTimer
  /\ creatorId \in AliveIds(engine)
  /\ Len(members) > 1
  /\ GraceCallback(Cur, creatorId).state = ENDED

\* the inputs of one tick: the snakes that die and the killer credited for each
TickInputs ==
  {<<dying, killer>> :
     dying \in SUBSET AliveIds(engine),
     killer \in UNION {[d -> AliveIds(engine) \cup {"none"}] :
                         d \in SUBSET AliveIds(engine)}}

\* the tick inputs that respect the engine: the killers of dying survive
ValidTickInputs ==
  {i \in TickInputs :
     /\ DOMAIN i[2] = i[1]
     /\ \A v \in i[1] : i[2][v] \notin i[1]}

\* in a PLAYING room of one of modes, the disconnect of member p followed by
\* its reconnect before the grace timer fires leaves no trace: the reconnect
\* cancels the timer and restores the state before the disconnect, and a tick
\* or the removal of another member in between has, once p is reconnected,
\* the result it has without the disconnect (same engine, so p's snake is
\* advanced and dies only if the tick kills it; same room state, so the round
\* ends only if it ends anyway), and p is still a member
DisconnectLeavesNoTrace(modes) ==
  (state = PLAYING /\ inDirectory /\ mode \in modes) =>
    \A p \in Range(members) :
      pl[p].connected =>
        LET d == HandleDisconnect(Cur, p)
        IN /\ d.pl[p].disconnectTimer
           /\ HandleReconnect(d, p) = Cur
           /\ \A i \in ValidTickInputs :
                LET a == TickCallback(d, i[1], i[2])
                IN /\ p \in Range(a.members)
                   /\ HandleReconnect(a, p) = TickCallback(Cur, i[1], i[2])
           /\ \A q \in Range(members) \ {p} :
                LET a == LeaveRoom(d, q)
                IN /\ p \in Range(a.members)
                   /\ HandleReconnect(a, p) = LeaveRoom(Cur, q)

ThrowContained(r, n) ==
  /\ r = [n EXCEPT !.hookThrows = TRUE, !.logged = r.logged]
  /\ r.state = ENDED =>
       /\ r.logged = 1
       /\ r.gameOverLog = Append(gameOverLog, roundNumber)
       /\ ~r.tickInterval
       /\ ~r.timedGameTimeout
       /\ \A p \in Range(r.members) : ~r.pl[p].alive /\ ~r.pl[p].spectating

\* C20: in every reachable PLAYING state, a tick, a removal (by leave or by
\* grace timer) or the deadline whose hook call throws completes exactly as it
\* does when the hook returns, the throw being logged.
C20_HookThrowContained ==
  state = PLAYING =>
    /\ \A i \in ValidTickInputs :
         ThrowContained(TickCallback(CurHook(TRUE), i[1], i[2]),
                        TickCallback(Cur, i[1], i[2]))
    /\ \A p \in Range(members) :
         /\ ThrowContained(LeaveRoom(CurHook(TRUE), p), LeaveRoom(Cur, p))
         /\ pl[p].disconnectTimer =>
              ThrowContained(GraceCallback(CurHook(TRUE), p),
                             GraceCallback(Cur, p))
    /\ timedGameTimeout =>
         ThrowContained(DeadlineCallback(CurHook(TRUE)), DeadlineCallback(Cur))

\* a timed round with its deadline pending in which the owner of a dead snake
\* is spectating: the deadline, a removal and a tick can each end it, with a
\* hook that throws
C20_Witness ==
  /\ mode = TIMED
  /\ state = PLAYING
  /\ timedGameTimeout
  /\ \E p \in Range(members) : pl[p].spectating /\ p \in DOMAIN engine.snakes
  /\ DeadlineCallback(CurHook(TRUE)).state = ENDED
  /\ \E p \in Range(members) : LeaveRoom(CurHook(TRUE), p).state = ENDED
  /\ \E i \in ValidTickInputs :
       TickCallback(CurHook(TRUE), i[1], i[2]).state = ENDED

(* ---------------------------------------------------------------------- *)
(* Steering input                                                          *)
(* ---------------------------------------------------------------------- *)

\* the heading and boost flag a steering message asks for; Dropped when
\* index.js handleInput drops the message
Dropped == [angle |-> NotFinite, boosting |-> FALSE]
Intent(msg) ==
  IF msg.angle # NotFinite
  THEN [angle |-> msg.angle, boosting |-> msg.boosting]
  ELSE IF msg.direction \in DOMAIN DirAngles
  THEN [angle |-> DirAngles[msg.direction], boosting |-> FALSE]
  ELSE Dropped

\* player p has a living snake in the engine of a room that is PLAYING
Steerable(p) ==
  /\ state = PLAYING
  /\ world.exists
  /\ p \in DOMAIN world.snakes
  /\ world.snakes[p].alive

\* the draws of an update() of DuelSpec
DuelDraws(w) == Draws(w, 0, {})

\* C21: a steering input changes the engine only while the room is PLAYING
\* and only for a living snake, where targetAngle and boosting become those
\* of the input and nothing else changes; of several inputs for one player
\* only the last counts (whatever input came before it, the engine is the
\* same), update() leaves targetAngle and boosting as the last input set
\* them, so that no earlier input comes back on a later tick, and an input
\* for a dead or unknown player or outside PLAYING changes nothing
C21_InputApplied ==
  \A p \in PlayerIds : \A msg \in DuelMsgs :
    \A w2 \in {HandleInputMsg(state, world, p, msg)} :
    IF Steerable(p) /\ Intent(msg) # Dropped
    THEN /\ w2 = [world EXCEPT !.snakes[p].targetAngle = Intent(msg).angle,
                               !.snakes[p].boosting = Intent(msg).boosting]
         /\ \A earlier \in DuelMsgs :
              HandleInputMsg(state, HandleInputMsg(state, world, p, earlier),
                             p, msg) = w2
         /\ \A rnd \in DuelDraws(w2) :
              \A w3 \in {EngineUpdate(w2, rnd)} :
              /\ w3.snakes[p].targetAngle = Intent(msg).angle
              /\ w3.snakes[p].boosting = Intent(msg).boosting
    ELSE ~Steerable(p) => w2 = world

\* the last two moves of a snake are in different directions
Turned(s) ==
  /\ Len(s.segments) >= 3
  /\ <<s.segments[1][1] - s.segments[2][1], s.segments[1][2] - s.segments[2][2]>>
       # <<s.segments[2][1] - s.segments[3][1], s.segments[2][2] - s.segments[3][2]>>

\* C21 witness: two inputs were sent and the first update() has run on
\* them: a living snake has turned to its target heading with the boost on
C21_Witness ==
  /\ state = PLAYING
  /\ world.tick = 1
  /\ drawn.inputs = 2
  /\ \E p \in DOMAIN world.snakes :
       /\ world.snakes[p].alive
       /\ world.snakes[p].boosting
       /\ world.snakes[p].angle = world.snakes[p].targetAngle
       /\ Turned(world.snakes[p])

\* C22: a call of Room.handleInput whose angle is not a finite number
\* changes nothing in the engine: neither targetAngle nor the boosting flag
\* of the snake nor anything else
C22_NonFiniteIgnored ==
  \A p \in PlayerIds : \A boosting \in BOOLEAN :
    HandleInput(state, world, p, NotFinite, boosting) = world

(* ---------------------------------------------------------------------- *)
(* Collisions                                                              *)
(* ---------------------------------------------------------------------- *)

\* the engine after the movement of the update of w, before the collisions
AfterMove(w) == MoveSnakes([w EXCEPT !.tick = @ + 1, !.events = << >>])

\* after movement the heads of the living snakes a and b are within
\* 2 x headRadius of each other and neither snake is shielded
HeadToHead(m, a, b) ==
  /\ a # b
  /\ m.snakes[a].alive /\ m.snakes[b].alive
  /\ HeadsTouch(m.snakes[a], m.snakes[b])
  /\ ~Shielded(m.snakes[a]) /\ ~Shielded(m.snakes[b])

\* the squared distance from the head of a to the previous head of b
ToPrevHead(m, a, b) == Dist2(m.snakes[a].segments[1], PrevHead(m.snakes[b]))

\* C23 as stated: when after movement the heads of two living unshielded
\* snakes are within 2 x headRadius, exactly one of the two is dead after the
\* update, and the survivor is the one whose head is farther from the other
\* snake's previous head
C23_ExactlyOneDies ==
  (state = PLAYING /\ world.exists) =>
    \A rnd \in DuelDraws(world) :
      \A m \in {AfterMove(world)} : \A w2 \in {EngineUpdate(world, rnd)} :
          \A a, b \in DOMAIN m.snakes :
            HeadToHead(m, a, b) =>
              /\ w2.snakes[a].alive \/ w2.snakes[b].alive
              /\ w2.snakes[a].alive =>
                    /\ ~w2.snakes[b].alive
                    /\ ToPrevHead(m, a, b) >= ToPrevHead(m, b, a)

(* ---------------------------------------------------------------------- *)
(* The boundary                                                            *)
(* ---------------------------------------------------------------------- *)

\* the draws of an update() of SoloSpec
SoloDraws(w) == Draws(w, MaxBites, SoloSpawns)

\* C24: a living snake without ghost effect whose head is outside the
\* boundary after movement is dead after that update, with cause wall and
\* the tick of the update as deathTick; a snake with a ghost effect whose
\* head leaves the circle has its head inside the circle after the update
\* and has not died of the wall; so after every update the head of every
\* living snake is inside the boundary
C24_BoundaryKills ==
  (state = PLAYING /\ world.exists) =>
    \A rnd \in SoloDraws(world) :
      \A w2 \in {EngineUpdate(world, rnd)} :
      \A id \in LiveSnakes(world) :
        LET s == world.snakes[id]
            s2 == w2.snakes[id]
            leaves == Outside(world, NewHead(s))
        IN  /\ leaves /\ ~Ghosted(s) =>
                  /\ ~s2.alive
                  /\ s2.deathCause = "wall"
                  /\ s2.deathTick = w2.tick
            /\ leaves /\ Ghosted(s) =>
                  /\ ~Outside(w2, s2.segments[1])
                  /\ s2.deathCause # "wall"
            /\ s2.alive => ~Outside(w2, s2.segments[1])

\* C24 witness: a snake under a ghost effect is about to leave the circle
C24_Witness ==
  /\ state = PLAYING
  /\ world.exists
  /\ \E id \in LiveSnakes(world) :
       /\ Ghosted(world.snakes[id])
       /\ Outside(world, NewHead(world.snakes[id]))

(* ---------------------------------------------------------------------- *)
(* Growth                                                                  *)
(* ---------------------------------------------------------------------- *)

\* C25: after every update() every living snake has at most
\* length + growPending segments
C25_SegmentsWithinLength ==
  world.exists =>
    \A id \in LiveSnakes(world) :
      Len(world.snakes[id].segments)
        <= world.snakes[id].length + world.snakes[id].growPending

(* ---------------------------------------------------------------------- *)
(* Deaths                                                                  *)
(* ---------------------------------------------------------------------- *)

\* the number of death events of snake id among the events of w
DeathCount(w, id) ==
  Cardinality({k \in 1 .. Len(w.events) :
                 w.events[k].type = "death" /\ w.events[k].playerId = id})

\* the first entry of the deaths list for snake id
FirstSentence(deaths, id) ==
  deaths[CHOOSE k \in 1 .. Len(deaths) :
           /\ deaths[k].id = id
           /\ \A m \in 1 .. (k - 1) : deaths[m].id # id]

\* C26: in one update() a snake for which one or several death conditions
\* hold dies once: one death event is emitted for it, its deathTick is the
\* tick of the update, and its deathCause and killedBy are those of the
\* first cause detected (the wall before the own body, the own body before
\* another snake); a snake for which none holds stays alive without death
\* event, and a snake that was dead before keeps its deathTick, deathCause
\* and killedBy and gets no further death event
C26_KilledOnce ==
  (state = PLAYING /\ world.exists) =>
    \A rnd \in DuelDraws(world) :
      \A m \in {AfterMove(world)} : \A deaths \in {CollectDeaths(m)} :
        \A w2 \in {EngineUpdate(world, rnd)} :
          \A id \in DOMAIN world.snakes :
            LET s == world.snakes[id]
                s1 == m.snakes[id]
                s2 == w2.snakes[id]
                wall == Outside(m, s1.segments[1]) /\ ~Ghosted(s1)
                self == ~Shielded(s1) /\ HitsSelf(s1)
            IN  IF ~s.alive
                THEN /\ ~s2.alive
                     /\ DeathCount(w2, id) = 0
                     /\ s2.deathTick = s.deathTick
                     /\ s2.deathCause = s.deathCause
                     /\ s2.killedBy = s.killedBy
                ELSE IF Sentenced(deaths, id)
                THEN /\ ~s2.alive
                     /\ DeathCount(w2, id) = 1
                     /\ s2.deathTick = w2.tick
                     /\ s2.deathCause = FirstSentence(deaths, id).cause
                     /\ s2.killedBy = FirstSentence(deaths, id).killerId
                     /\ wall => s2.deathCause = "wall"
                     /\ ~wall /\ self => s2.deathCause = "self"
                ELSE /\ s2.alive
                     /\ DeathCount(w2, id) = 0
                     /\ s2.deathCause = "none"

\* C26 witness: after the movement of the next update two death
\* conditions of different causes hold for one living snake
C26_Witness ==
  /\ state = PLAYING
  /\ world.exists
  /\ LET deaths == CollectDeaths(AfterMove(world)) IN
     \E i, k \in 1 .. Len(deaths) :
       /\ deaths[i].id = deaths[k].id
       /\ deaths[i].cause # deaths[k].cause

\* the snakes that die in the update from w to w2 with killer k
VictimsOf(w, w2, k) ==
  {id \in LiveSnakes(w) : ~w2.snakes[id].alive /\ w2.snakes[id].killedBy = k}

\* the positions of the kill events for victim id among the events of w
KillEvents(w, id) ==
  {e \in 1 .. Len(w.events) :
     w.events[e].type = "kill" /\ w.events[e].other = id}

\* C27: every snake that dies in an update() with a killer has exactly
\* one kill event, right before its death event, and every snake gains one
\* kill and 50 points of score for each snake that died with it as the
\* killer, whether or not it dies itself in that update; a snake that dies
\* without killer has no kill event
C27_KillerCredited ==
  (state = PLAYING /\ world.exists) =>
    \A rnd \in DuelDraws(world) :
      \A w2 \in {EngineUpdate(world, rnd)} :
      /\ \A id \in LiveSnakes(world) :
            ~w2.snakes[id].alive =>
              LET s2 == w2.snakes[id] IN
              IF s2.killedBy = "none" THEN KillEvents(w2, id) = {}
              ELSE \E e \in 1 .. (Len(w2.events) - 1) :
                     /\ KillEvents(w2, id) = {e}
                     /\ w2.events[e] =
                          Event("kill", s2.killedBy, id, s2.deathCause)
                     /\ w2.events[e + 1] =
                          Event("death", id, s2.killedBy, s2.deathCause)
      /\ \A k \in DOMAIN world.snakes :
            LET n == Cardinality(VictimsOf(world, w2, k)) IN
            /\ w2.snakes[k].kills = world.snakes[k].kills + n
            /\ w2.snakes[k].score = world.snakes[k].score + n * KILL_SCORE

(* ---------------------------------------------------------------------- *)
(* Standings                                                               *)
(* ---------------------------------------------------------------------- *)

\* C28: getStandings() holds every snake of the engine exactly once, its
\* entries carry the ranks 1..n and the alive flag, score and length of
\* their snake, every living snake stands before every dead one, the
\* living and the dead are each in order of descending score and, at
\* equal score, of descending length; the game_over of _endGame carries
\* these standings and, as winner, their first entry
C28_Standings ==
  world.exists =>
    LET st == GetStandings(world)
        n == Len(st)
    IN  /\ n = Cardinality(DOMAIN world.snakes)
        /\ {st[i].id : i \in 1 .. n} = DOMAIN world.snakes
        /\ \A i \in 1 .. n :
             /\ st[i].rank = i
             /\ st[i].alive = world.snakes[st[i].id].alive
             /\ st[i].score = world.snakes[st[i].id].score
             /\ st[i].length = world.snakes[st[i].id].length
        /\ \A i, j \in 1 .. n :
             i < j =>
               /\ st[i].alive \/ ~st[j].alive
               /\ st[i].alive = st[j].alive =>
                    /\ st[i].score >= st[j].score
                    /\ st[i].score = st[j].score =>
                         st[i].length >= st[j].length
        /\ gameOver.sent =>
             /\ gameOver.standings = st
             /\ IF n = 0 THEN gameOver.winner = NoWinner
                ELSE /\ gameOver.winner.id = st[1].id
                     /\ gameOver.winner.score = st[1].score
                     /\ st[1].rank = 1

\* C28 witness: a game_over whose winner is a living snake that was not
\* inserted first and has a lower score than a dead snake, followed by two
\* dead snakes of equal score in order of length, against insertion order
C28_Witness ==
  /\ gameOver.sent
  /\ Len(gameOver.standings) = 3
  /\ LET st == gameOver.standings IN
     /\ gameOver.winner.id = "p3"
     /\ st[1].alive /\ ~st[2].alive /\ ~st[3].alive
     /\ st[1].score < st[2].score
     /\ st[2].score = st[3].score
     /\ st[2].length > st[3].length
     /\ st[2].id = "p2" /\ st[3].id = "p1"

(* ---------------------------------------------------------------------- *)
(* The recent-events buffer                                                *)
(* ---------------------------------------------------------------------- *)

\* C29: Room.recentEvents never holds more than 50 events; it holds the
\* last events the engine of the current round has emitted (all of them up
\* to 50), in the order of emission, and none of an earlier round, so that
\* it is empty when a round begins; the events of getFullGameState() are
\* the last events of this buffer, in its order
C29_RecentEvents ==
  LET n == Len(recentEvents)
      resync == ResyncEvents(recentEvents)
  IN  /\ n <= RECENT_EVENTS_MAX
      /\ n = Min(emitted, RECENT_EVENTS_MAX)
      /\ \A i \in 1 .. n :
           recentEvents[i] = [round |-> roundNumber, serial |-> emitted - n + i]
      /\ Len(resync) <= n
      /\ \A i \in 1 .. Len(resync) :
           resync[i] = recentEvents[n - Len(resync) + i]

\* C29 witness: in the second round the engine has emitted more than 50
\* events, the buffer is full and the oldest event of the round is dropped
C29_Witness ==
  /\ state = PLAYING
  /\ roundNumber = 2
  /\ emitted > RECENT_EVENTS_MAX
  /\ Len(recentEvents) = RECENT_EVENTS_MAX
  /\ recentEvents[1].serial > 1

(* ---------------------------------------------------------------------- *)
(* Power-up effects                                                        *)
(* ---------------------------------------------------------------------- *)

\* the number of powerup_expired events of snake id and the type in w
ExpiredEvents(w, id, type) ==
  Cardinality({e \in 1 .. Len(w.events) :
                 w.events[e] = Event("powerup_expired", id, "none", type)})

\* in the update from w to w2 with the draws rnd, snake id picks up a
\* power-up of the type: it survives the collisions and its head is over
\* such a power-up of the field
PicksUp(w, w2, rnd, id, type) ==
  /\ w2.snakes[id].alive
  /\ rnd.picks[id] = type
  /\ LastOfType(w.powerups, type) > 0

\* C30: an update() in which a snake picks up a power-up leaves the effect
\* of that type with the full duration of the type less the tick of this
\* update, whatever was left of it before; an effect of a living snake that
\* is not picked up again loses one tick and, when none is left, is removed
\* with exactly one powerup_expired event; no other effect changes and no
\* other powerup_expired event is emitted; after every update() every
\* effect has between 0 (not active) and the duration of its type left
C30_EffectDurations ==
  (state = PLAYING /\ world.exists) =>
    /\ \A id \in DOMAIN world.snakes : \A type \in PowerupNames :
         world.snakes[id].activePowerups[type] \in 0 .. POWERUP_TYPES[type]
    /\ \A rnd \in SoloDraws(world) :
         \A w2 \in {EngineUpdate(world, rnd)} :
         \A id \in DOMAIN world.snakes : \A type \in PowerupNames :
           LET old == world.snakes[id].activePowerups[type]
               new == w2.snakes[id].activePowerups[type]
           IN  IF PicksUp(world, w2, rnd, id, type)
               THEN /\ new = POWERUP_TYPES[type] - 1
                    /\ ExpiredEvents(w2, id, type) = 0
               ELSE IF w2.snakes[id].alive /\ old > 0
               THEN /\ new = old - 1
                    /\ ExpiredEvents(w2, id, type) = IF new = 0 THEN 1 ELSE 0
               ELSE /\ new = old
                    /\ ExpiredEvents(w2, id, type) = 0

\* C30 witness: a living snake under a speed effect that is not fresh has
\* its head where a speed power-up can lie in the next update
C30_Witness ==
  /\ state = PLAYING
  /\ world.exists
  /\ world.tick < SoloTicks
  /\ \E id \in LiveSnakes(world) :
       /\ world.snakes[id].activePowerups["speed"] \in 1 .. (SpeedTicks - 2)
       /\ LastOfType(world.powerups, "speed") > 0
       /\ AtFoodCheck(world).snakes[id].alive

(* ---------------------------------------------------------------------- *)
(* The phases of update()                                                  *)
(* ---------------------------------------------------------------------- *)

\* what can lie under the heads in the update of w, the heads of the snakes
\* that die in it included, and what can be spawned
AnyDraws(w) ==
  LET ids == DOMAIN w.snakes
      held == {w.powerups[k].type : k \in 1 .. Len(w.powerups)}
  IN  [bites : [ids -> BiteSeqs(AtFoodCheck(w).food, 1)],
       picks : [ids -> held \cup {"none"}],
       spawn : FeastSpawns \cup {"none"}]

\* the phase of update() that emits an event of the type
Phase(type) ==
  CASE type \in {"kill", "death"} -> 2
    [] type = "eat" -> 3
    [] type = "powerup_pickup" -> 4
    [] type \in {"powerup_expired", "powerup_despawn"} -> 5
    [] type = "powerup_spawn" -> 7

\* the events of w about snake id that are no kill or death events
OwnEvents(w, id) ==
  {e \in 1 .. Len(w.events) :
     /\ w.events[e].playerId = id
     /\ w.events[e].type \notin {"kill", "death"}}

\* C31: the events of an update() come in the order of its phases
\* (collisions and deaths, food, pickups, effect countdown, spawn); a snake
\* that dies in the update is left as the death left it, whatever lies
\* under its head: it does not eat, picks up nothing, its effects are not
\* counted down; a snake that survives eats and picks up what lies under
\* its head after the collisions, which includes the food dropped by the
\* deaths of this update, and its score and growth are those after the
\* collisions plus what it ate and the power-up it got
C31_PhaseOrder ==
  (state = PLAYING /\ world.exists) =>
    \A c \in {AtFoodCheck(world)} : \A rnd \in AnyDraws(world) :
      \A w2 \in {EngineUpdate(world, rnd)} :
        /\ \A e, f \in 1 .. Len(w2.events) :
             e < f => Phase(w2.events[e].type) <= Phase(w2.events[f].type)
        /\ \A id \in LiveSnakes(world) :
             IF ~c.snakes[id].alive
             THEN /\ w2.snakes[id] = c.snakes[id]
                  /\ OwnEvents(w2, id) = {}
             ELSE LET picked == \E e \in OwnEvents(w2, id) :
                                  w2.events[e].type = "powerup_pickup"
                      bites == rnd.bites[id]
                  IN  /\ w2.snakes[id].alive
                      /\ w2.snakes[id].score =
                           c.snakes[id].score
                             + (IF bites = << >> THEN 0 ELSE Points(bites[1]))
                             + (IF picked THEN POWERUP_SCORE ELSE 0)
                      /\ w2.snakes[id].growPending =
                           c.snakes[id].growPending
                             + (IF bites = << >> THEN 0 ELSE Growth(bites[1]))
                      /\ w2.snakes[id].segments = c.snakes[id].segments

\* C31 witness: the food list is empty, and in the next update one snake
\* dies and drops bonus food while another survives, which can eat it
C31_Witness ==
  /\ state = PLAYING
  /\ world.exists
  /\ world.food = {}
  /\ LET c == AtFoodCheck(world) IN
     /\ "bonus" \in c.food
     /\ \E a, b \in LiveSnakes(world) :
          /\ ~c.snakes[a].alive
          /\ c.snakes[b].alive
          /\ \E rnd \in AnyDraws(world) :
               /\ rnd.bites[b] = <<"bonus">>
               /\ EngineUpdate(world, rnd).snakes[b].score =
                    c.snakes[b].score + BONUS_FOOD_SCORE

(* ---------------------------------------------------------------------- *)
(* Dead snakes                                                             *)
(* ---------------------------------------------------------------------- *)

\* C32: a dead snake that is still in the engine after a step is exactly
\* what it was before the step (segments, score, kills, length,
\* growPending, effects, death metadata, still dead), whatever the step is:
\* a steering input, an update, the death or the removal of another snake;
\* and it is out of the engine after a step only if that step is its
\* removal, which is no update and takes no other snake out
C32_DeadSnakeFrozen ==
  [][(state = PLAYING /\ world.exists) =>
       \A id \in DOMAIN world.snakes :
         ~world.snakes[id].alive =>
           IF id \in DOMAIN world'.snakes
           THEN world'.snakes[id] = world.snakes[id]
           ELSE /\ world'.tick = world.tick
                /\ DOMAIN world'.snakes = DOMAIN world.snakes \ {id}]_vars

\* C32 witness: a snake died in an earlier update with an effect still
\* active, and the other snake died after it
C32_Witness ==
  /\ state = PLAYING
  /\ world.exists
  /\ \E a, b \in DOMAIN world.snakes :
       /\ ~world.snakes[a].alive
       /\ ~world.snakes[b].alive
       /\ world.snakes[a].deathTick < world.snakes[b].deathTick
       /\ \E t \in PowerupNames : world.snakes[a].activePowerups[t] > 0

(* ---------------------------------------------------------------------- *)
(* Members mirror their snakes                                             *)
(* ---------------------------------------------------------------------- *)

\* member p of room a has the alive, score and kills of its snake, and is
\* flagged spectating if the snake is dead
Mirrors(a, p) ==
  /\ a.pl[p].alive = a.engine.snakes[p].alive
  /\ a.pl[p].score = a.engine.snakes[p].score
  /\ a.pl[p].kills = a.engine.snakes[p].kills
  /\ ~a.engine.snakes[p].alive => a.pl[p].spectating

\* C33 as stated: after every tick callback every member with a snake
\* mirrors it and every member without a snake is what it was
C33_MembersMirrorSnakes ==
  (tickInterval /\ state = PLAYING /\ engine.exists) =>
    \A i \in ValidTickInputs :
      \A a \in {TickCallback(Cur, i[1], i[2])} :
        \A p \in Range(a.members) :
          IF p \in DOMAIN a.engine.snakes THEN Mirrors(a, p)
          ELSE a.pl[p] = pl[p]

\* C33 amended: after a tick callback that leaves the room PLAYING every
\* member with a snake mirrors it and every member without a snake is what
\* it was; after a tick callback that ends the round every member with a
\* snake has the score and kills of its snake, and every member has alive
\* and spectating FALSE and is otherwise what it was
C33_MembersMirrorSnakesWhilePlaying ==
  (tickInterval /\ state = PLAYING /\ engine.exists) =>
    \A i \in ValidTickInputs :
      \A a \in {TickCallback(Cur, i[1], i[2])} :
        \A p \in Range(a.members) :
          IF a.state = PLAYING
          THEN IF p \in DOMAIN a.engine.snakes THEN Mirrors(a, p)
               ELSE a.pl[p] = pl[p]
          ELSE /\ a.state = ENDED
               /\ ~a.pl[p].alive
               /\ ~a.pl[p].spectating
               /\ IF p \in DOMAIN a.engine.snakes
                  THEN /\ a.pl[p].score = a.engine.snakes[p].score
                       /\ a.pl[p].kills = a.engine.snakes[p].kills
                  ELSE a.pl[p] = [pl[p] EXCEPT !.alive = FALSE,
                                               !.spectating = FALSE]

\* C33 witness: a tick has run and left the room PLAYING with a member
\* whose snake is dead, flagged spectating, next to a member that mirrors
\* the kill its living snake was credited with
C33_Witness ==
  /\ state = PLAYING
  /\ engine.exists
  /\ lastTick = [round |-> roundNumber, tick |-> engine.tick]
  /\ \E p, q \in Range(members) \cap DOMAIN engine.snakes :
       /\ ~engine.snakes[p].alive
       /\ pl[p].spectating
       /\ ~pl[p].alive
       /\ engine.snakes[q].alive
       /\ engine.snakes[q].kills = 1
       /\ pl[q].kills = 1
       /\ pl[q].score = KILL_SCORE

(* ---------------------------------------------------------------------- *)
(* Shield and ghost                                                        *)
(* ---------------------------------------------------------------------- *)

\* snake id of m, alive before the collisions, is dead in c after them
DiedIn(m, c, id) == m.snakes[id].alive /\ ~c.snakes[id].alive

\* C34: in the collisions of an update, m being the engine after the
\* movement and c after the deaths: a shielded snake dies of nothing but
\* the wall and a ghosted snake of nothing but itself or a head-to-head
\* collision; a shielded snake without ghost outside the boundary dies of
\* the wall; a ghosted snake without shield whose head is on its own body
\* dies; and when the heads of the two snakes touch and the first one has
\* not died of the wall or of itself, the collider dies unless it is
\* shielded itself, ghosted or not and whatever the target carries, and
\* the target never dies of the head-to-head collision
C34_ShieldAndGhost ==
  (state = PLAYING /\ world.exists) =>
    \A m \in {AfterMove(world)} : \A c \in {DetectCollisions(m)} :
      /\ \A id \in LiveSnakes(m) :
           LET s == m.snakes[id] IN
           /\ (Shielded(s) /\ DiedIn(m, c, id)) =>
                c.snakes[id].deathCause = "wall"
           /\ (Ghosted(s) /\ DiedIn(m, c, id)) =>
                c.snakes[id].deathCause \in {"self", "head_collision"}
           /\ (Shielded(s) /\ ~Ghosted(s) /\ Outside(m, s.segments[1])) =>
                DiedIn(m, c, id)
           /\ (Ghosted(s) /\ ~Shielded(s) /\ HitsSelf(s)) =>
                DiedIn(m, c, id)
      /\ (/\ Len(m.order) = 2
          /\ LiveSnakes(m) = Range(m.order)
          /\ HeadsTouch(m.snakes[m.order[1]], m.snakes[m.order[2]])
          /\ OwnDeath(m, m.order[1]) = << >>) =>
           LET colliderIsA ==
                 ColliderIsA(m.snakes[m.order[1]], m.snakes[m.order[2]])
               collider == IF colliderIsA THEN m.order[1] ELSE m.order[2]
               target == IF colliderIsA THEN m.order[2] ELSE m.order[1]
           IN  /\ ~Shielded(m.snakes[collider]) => DiedIn(m, c, collider)
               /\ DiedIn(m, c, target) =>
                    c.snakes[target].deathCause # "head_collision"

\* C34 witness: the heads of two snakes touch in the coming update, the
\* collider carries a shield and neither snake dies
C34_Witness ==
  /\ state = PLAYING
  /\ world.exists
  /\ LET m == AfterMove(world)
         c == DetectCollisions(m)
     IN  \E a, b \in LiveSnakes(m) :
           /\ a # b
           /\ HeadsTouch(m.snakes[a], m.snakes[b])
           /\ Shielded(m.snakes[a])
           /\ ~Shielded(m.snakes[b])
           /\ Dist2(m.snakes[a].segments[1], PrevHead(m.snakes[b]))
                < Dist2(m.snakes[b].segments[1], PrevHead(m.snakes[a]))
           /\ c.snakes[a].alive
           /\ c.snakes[b].alive

(* ---------------------------------------------------------------------- *)
(* The cost of boosting                                                    *)
(* ---------------------------------------------------------------------- *)

\* the engine at the start of the movement phase of its next update
Ticked(w) == [w EXCEPT !.tick = @ + 1, !.events = << >>]

\* snake id is effectively boosting in each of the next n updates of w, in
\* which nothing is eaten, picked up or spawned, only if it pays the boost
\* cost in exactly one of them, paid being the payments so far, and ends
\* one segment shorter than length
RECURSIVE BoostRun(_, _, _, _, _)
BoostRun(w, id, n, paid, length) ==
  IF n = 0 THEN paid = 1 /\ w.snakes[id].length = length - 1
  ELSE \/ ~w.snakes[id].alive
       \/ ~CanBoost(w.snakes[id])
       \/ LET quiet == [bites |-> [p \in DOMAIN w.snakes |-> << >>],
                        picks |-> [p \in DOMAIN w.snakes |-> "none"],
                        spawn |-> "none"]
              pays == MoveSnake(Ticked(w), w.snakes[id]).dropsFood
          IN  \A w2 \in {EngineUpdate(w, quiet)} :
                \A sum \in {paid + (IF pays THEN 1 ELSE 0)} :
                  BoostRun(w2, id, n - 1, sum, length)

\* what the movement phase does to living snake id compared with the same
\* snake without the boosting flag: when it is effectively boosting its
\* length is one less on the ticks divisible by BOOST_COST_INTERVAL, when
\* one normal food item is dropped, and not below INITIAL_SNAKE_LENGTH + 3;
\* and BOOST_COST_INTERVAL updates of effective boosting without growth cost
\* exactly one segment and drop exactly one item
BoostCost(id) ==
  LET s == world.snakes[id]
      due == (world.tick + 1) % BOOST_COST_INTERVAL = 0
      plain == MoveSnake(Ticked(world), [s EXCEPT !.boosting = FALSE])
      moved == MoveSnake(Ticked(world), s)
  IN  /\ CanBoost(s) =>
           /\ moved.dropsFood = due
           /\ moved.snake.length = plain.snake.length - (IF due THEN 1 ELSE 0)
           /\ moved.snake.length >= INITIAL_SNAKE_LENGTH + 3
      /\ s.growPending = 0 =>
           BoostRun(world, id, BOOST_COST_INTERVAL, 0, s.length)

\* C35: BoostCost, and a living snake of length at most
\* INITIAL_SNAKE_LENGTH + 3 moves exactly as it would without the boosting
\* flag (at SNAKE_SPEED, scaled by 1.4 under a speed power-up), pays nothing
\* and drops nothing
C35_BoostCost ==
  (state = PLAYING /\ world.exists) =>
    \A id \in LiveSnakes(world) :
      LET s == world.snakes[id]
          plain == MoveSnake(Ticked(world), [s EXCEPT !.boosting = FALSE])
          moved == MoveSnake(Ticked(world), s)
      IN  /\ BoostCost(id)
          /\ s.length <= INITIAL_SNAKE_LENGTH + 3 =>
               /\ SpeedOf(s) = (IF s.activePowerups.speed > 0
                                THEN (SNAKE_SPEED * 14) \div 10
                                ELSE SNAKE_SPEED)
               /\ ~moved.dropsFood
               /\ moved.snake = [plain.snake EXCEPT !.boosting = s.boosting]

\* C35 witness: a snake of more than INITIAL_SNAKE_LENGTH + 3 segments has
\* the boosting flag set, and the coming update is one that costs it a
\* segment
C35_Witness ==
  /\ state = PLAYING
  /\ world.exists
  /\ (world.tick + 1) % BOOST_COST_INTERVAL = 0
  /\ \E id \in LiveSnakes(world) :
       /\ CanBoost(world.snakes[id])
       /\ MoveSnake(Ticked(world), world.snakes[id]).dropsFood
       /\ AfterMove(world).snakes[id].length = world.snakes[id].length - 1

(* ---------------------------------------------------------------------- *)
(* The start of a round                                                    *)
(* ---------------------------------------------------------------------- *)

\* C36: a step that takes the room to PLAYING leaves it with an engine that
\* holds at least one snake
C36_RoundStartsWithSnake ==
  [][(state # PLAYING /\ state' = PLAYING) =>
       (engine'.exists /\ SnakeCount(engine') >= 1)]_vars

(* ---------------------------------------------------------------------- *)
(* Superseded connections                                                  *)
(* ---------------------------------------------------------------------- *)

\* the close handler of a connection of player p: player.onDisconnect(),
\* then roomManager.handleDisconnect(player); the handler does not look at
\* which connection the player is attached to
OnClose(s, p) ==
  HandleDisconnect(
    IF p \in Range(s.members) THEN [s EXCEPT !.pl[p] = OnDisconnect(@)] ELSE s,
    p)

\* C37: when a connected member reconnects on a new connection and the
\* close event of its earlier connection is processed afterwards, the
\* member is still in the room, connected and without grace timer, and the
\* room is what it was after the reconnect
C37_SupersededCloseIgnored ==
  inDirectory =>
    \A p \in Range(members) :
      pl[p].connected =>
        \A r \in {HandleReconnect(Cur, p)} : \A d \in {OnClose(r, p)} :
          /\ p \in Range(d.members)
          /\ d.pl[p].connected
          /\ ~d.pl[p].disconnectTimer
          /\ d = r

(* ---------------------------------------------------------------------- *)
(* Capacity                                                                *)
(* ---------------------------------------------------------------------- *)

\* C38: the room never has more than maxPlayers members
C38_WithinCapacity == Len(members) <= maxPlayers

(* ---------------------------------------------------------------------- *)
(* game_over and its standings                                             *)
(* ---------------------------------------------------------------------- *)

\* the snakes of engine e that getStandings() can put first, living snakes
\* coming before dead ones and higher scores before lower ones: the winner
\* reported by _endGame is one of them
Winners(e) ==
  {id \in DOMAIN e.snakes :
     \A other \in DOMAIN e.snakes :
       ~ \/ e.snakes[other].alive /\ ~e.snakes[id].alive
         \/ /\ e.snakes[other].alive = e.snakes[id].alive
            /\ e.snakes[other].score > e.snakes[id].score}

\* a game_over is sent in this step
GameOverSent == Len(gameOverLog') > Len(gameOverLog)

C40_CreatorIsMember ==
  members # << >> =>
    /\ creatorId \in Range(members)
    /\ inDirectory =>
         \E p \in Range(members) :
           StartGame(Cur, p).result
             \notin {"error: Not in any room",
                     "error: Only the room creator can start the game"}

\* C40 witness: the creator of the room has left it, and the room has
\* members, one of which is the creator now
C40_Witness ==
  /\ members # << >>
  /\ Creator \notin Range(members)
  /\ creatorId \in Range(members)
  /\ inDirectory

====
